---- MODULE Spec2Model ----
(***************************************************************************)
(* smartfs-tools: the sector codec, the MTD block layer and the            *)
(* directory/file layer of the SmartFS image builder.                      *)
(*                                                                         *)
(* Representation.  The image is kept per physical sector: storage maps a  *)
(* physical sector that was written to its bytes, and every other byte of  *)
(* the image is blank (0 in the caller's bytearray, the fill value 0xFF    *)
(* once the formatted constructor has filled the image).  smap maps        *)
(* the allocated logical sectors only, every other key of the dict holds   *)
(* PS_NOT_ALLOCATED.  free_sector_map is the set of <<eb, i>> whose entry  *)
(* is 0, every other entry is 1.  Byte strings are sequences of 0..255,    *)
(* text strings sequences of ASCII codes.                                  *)
(***************************************************************************)
EXTENDS Integers, Sequences, FiniteSets, TLC

(* ------------------------------------------------------------------ *)
(* base.py: definitions                                                 *)
(* ------------------------------------------------------------------ *)
Signature == <<83, 77, 82, 84>>
SCTN_ROOT_DIR_SECTOR == 3
SCTN_FIRST_ALLOC_SECTOR == 12
LS_HIGHT_NUMBER == 65535
PS_NOT_ALLOCATED == 65535

\* Python's None, where an Optional[int] is returned or passed.
None == 0 - 2

\* The outcome "no exception".
OK == "ok"

Pow2(n) == 2 ^ n

\* SectorSize.cnv_to_size
cnv_to_size(value) == Pow2(value + 8)

\* Version.v1, Commited.committed, Released.not_released
Version_v1 == 1
Commited_committed == 0
Released_not_released == 1
\* SectorType, SmartFSDirEntryType
SectorType_directory == 1
SectorType_file == 2
SmartFSDirEntryType_file == 0
SmartFSDirEntryType_dir == 1

(* ------------------------------------------------------------------ *)
(* Bytes                                                                *)
(* ------------------------------------------------------------------ *)
Byte == 0..255

Rep(b, n) == [i \in 1..n |-> b]

\* A local variable: v is computed once and F reads it by its parameter.
Let(v, F(_)) == F(v)

\* int.to_bytes(2, "little") / struct "<H" of a value in 0..65535
U16LE(v) == <<v % 256, (v \div 256) % 256>>
\* int.from_bytes(b, "little") of two bytes
FromU16LE(b) == b[1] + 256 * b[2]
\* A 32-bit unsigned value is the pair <<high 16 bits, low 16 bits>>.
U32(v) == <<v \div 65536, v % 65536>>
\* struct "<I"
U32LE(w) == U16LE(w[2]) \o U16LE(w[1])
FromU32LE(b) == <<b[3] + 256 * b[4], b[1] + 256 * b[2]>>
\* struct.unpack("<h"): two's complement
FromI16LE(b) == LET u == FromU16LE(b) IN IF u >= 32768 THEN u - 65536 ELSE u

RECURSIVE XorBits(_, _, _)
XorBits(a, b, n) ==
    IF n = 0 THEN 0
    ELSE (((a % 2) + (b % 2)) % 2) + 2 * XorBits(a \div 2, b \div 2, n - 1)

RECURSIVE OrBits(_, _, _)
OrBits(a, b, n) ==
    IF n = 0 THEN 0
    ELSE (IF (a % 2) + (b % 2) > 0 THEN 1 ELSE 0) + 2 * OrBits(a \div 2, b \div 2, n - 1)

XorNibble == [a \in 0..15 |-> [b \in 0..15 |-> XorBits(a, b, 4)]]
Xor8(a, b) == XorNibble[a \div 16][b \div 16] * 16 + XorNibble[a % 16][b % 16]

(* ------------------------------------------------------------------ *)
(* crc.Calculator(crc.Crc8.CCITT): width 8, polynomial 0x07, init 0,    *)
(* no reflection, no final xor                                          *)
(* ------------------------------------------------------------------ *)
Crc8Shift(c) == IF c >= 128 THEN Xor8((c * 2) % 256, 7) ELSE c * 2
Crc8Table ==
    [c \in Byte |->
        Crc8Shift(Crc8Shift(Crc8Shift(Crc8Shift(
        Crc8Shift(Crc8Shift(Crc8Shift(Crc8Shift(c))))))))]

RECURSIVE Crc8Range(_, _, _, _)
Crc8Range(s, lo, hi, c) ==
    IF lo > hi THEN c
    ELSE IF lo = hi THEN Crc8Table[Xor8(c, s[lo])]
    ELSE LET mid == (lo + hi) \div 2
             c1 == Crc8Range(s, lo, mid, c)
         IN  IF c1 >= 0 THEN Crc8Range(s, mid + 1, hi, c1) ELSE c1

checksum(buffer) == Crc8Range(buffer, 1, Len(buffer), 0)

(* ------------------------------------------------------------------ *)
(* base.py: SectorStatus, SectorHeaderV1                                *)
(* ------------------------------------------------------------------ *)
\* get_pack with the sector size one bit lower, in bits 3-1
SectorStatus_get_pack_low_size(status) ==
    status.committed * 128 + status.released * 64 + status.crc_enable * 32
        + status.sector_size * 2 + status.format_version

\* The fields occupy disjoint bits, so the bitwise or is the sum.
SectorStatus_get_pack(status) ==
    status.committed * 128 + status.released * 64 + status.crc_enable * 32
        + status.sector_size * 4 + status.format_version

\* Version((value >> 0) & 0x3) raises for anything but v1.
SectorStatus_create_from_int(value) ==
    [err |-> IF value % 4 = Version_v1 THEN OK ELSE "ValueError: not a valid Version",
     ret |-> [committed |-> (value \div 128) % 2,
              released |-> (value \div 64) % 2,
              crc_enable |-> (value \div 32) % 2,
              sector_size |-> (value \div 4) % 8,
              format_version |-> value % 4]]

\* A header: logical_sector_number, sequence_number, status, crc_value, crc.
SectorHeaderV1_get_pack(h) ==
    IF h.crc = "none"
    THEN U16LE(h.logical_sector_number)
            \o <<h.sequence_number % 256, h.sequence_number \div 256>>
            \o <<SectorStatus_get_pack(h.status)>>
    ELSE U16LE(h.logical_sector_number)
            \o <<h.sequence_number % 256, h.crc_value>>
            \o <<SectorStatus_get_pack(h.status)>>

\* create_from_raw that takes the sequence number from one byte in either mode
SectorHeader_create_from_raw_seq_low(value) ==
    LET st == SectorStatus_create_from_int(value[5])
        crc_on == st.ret.crc_enable = 1
    IN  [err |-> st.err,
         ret |-> [logical_sector_number |-> FromU16LE(<<value[1], value[2]>>),
                  sequence_number |-> value[3],
                  status |-> st.ret,
                  crc_value |-> IF crc_on THEN value[4] ELSE 0,
                  crc |-> IF crc_on THEN "crc8" ELSE "none"]]

\* SectorHeader.create_from_raw and SectorHeaderV1.create_from_bytes
SectorHeader_create_from_raw(value) ==
    LET st == SectorStatus_create_from_int(value[5])
        crc_on == st.ret.crc_enable = 1
    IN  [err |-> st.err,
         ret |-> [logical_sector_number |-> FromU16LE(<<value[1], value[2]>>),
                  sequence_number |-> IF crc_on THEN value[3] ELSE value[3] + 256 * value[4],
                  status |-> st.ret,
                  crc_value |-> IF crc_on THEN value[4] ELSE 0,
                  crc |-> IF crc_on THEN "crc8" ELSE "none"]]

(* ------------------------------------------------------------------ *)
(* base.py: ChainHeader                                                 *)
(* ------------------------------------------------------------------ *)
ChainHeader_get_size == 5

\* get_pack with used stored before next
ChainHeader_get_pack_used_first(ch) == <<ch.sector_type>> \o U16LE(ch.used) \o U16LE(ch.next_sector)

\* struct "<BHH": type, next, used
ChainHeader_get_pack(ch) == <<ch.sector_type>> \o U16LE(ch.next_sector) \o U16LE(ch.used)

\* SectorType(value[0]) raises for anything but 1 and 2.
ChainHeader_create_from_raw(value) ==
    [err |-> IF value[1] \in {SectorType_directory, SectorType_file}
             THEN OK ELSE "ValueError: not a valid SectorType",
     ret |-> [sector_type |-> value[1],
              next_sector |-> FromU16LE(<<value[2], value[3]>>),
              used |-> FromU16LE(<<value[4], value[5]>>)]]

(* ------------------------------------------------------------------ *)
(* base.py: SmartFSDirEntryFlags, SmartFSEntryHeader                    *)
(* ------------------------------------------------------------------ *)
\* flags: empty, active, type, deleting, mode
SmartFSDirEntryFlags_get_pack(flags) ==
    U16LE(OrBits(flags.empty * 32768 + flags.active * 16384 + flags.type * 8192
                    + flags.deleting * 4096 + 7 * 512,
                 flags.mode, 16))

\* create_from_raw with type read from bit 12 and deleting from bit 13
SmartFSDirEntryFlags_create_from_raw_swapped(values) ==
    [empty |-> (values[2] \div 128) % 2,
     active |-> (values[2] \div 64) % 2,
     type |-> (values[2] \div 16) % 2,
     deleting |-> (values[2] \div 32) % 2,
     mode |-> (values[1] + values[2] * 256) % 512]

\* values[1] is the high byte: empty, active, type, deleting in its bits 7-4
SmartFSDirEntryFlags_create_from_raw(values) ==
    [empty |-> (values[2] \div 128) % 2,
     active |-> (values[2] \div 64) % 2,
     type |-> (values[2] \div 32) % 2,
     deleting |-> (values[2] \div 16) % 2,
     mode |-> (values[1] + values[2] * 256) % 512]

SmartFSEntryHeader_get_size(max_len_filename) == 2 + 2 + 4 + max_len_filename

\* str.rstrip("\x00") of a decoded name
rstrip0(name) ==
    LET keep == {i \in 1..Len(name) : name[i] # 0}
    IN  IF keep = {} THEN <<>>
        ELSE SubSeq(name, 1, CHOOSE i \in keep : \A j \in keep : j <= i)

\* get_pack with the timestamp stored before first_sector
SmartFSEntryHeader_get_pack_utc_first(eh, max_name_len) ==
    IF Len(eh.name) > max_name_len
    THEN [err |-> "ValueError: Name is longer", ret |-> <<>>]
    ELSE IF eh.first_sector > 32767 \/ eh.first_sector < 0 - 32768
    THEN [err |-> "struct.error", ret |-> <<>>]
    ELSE [err |-> OK,
          ret |-> SmartFSDirEntryFlags_get_pack(eh.flags)
                    \o U32LE(eh.utc)
                    \o U16LE(eh.first_sector % 65536)
                    \o eh.name \o Rep(0, max_name_len - Len(eh.name))]

\* An entry header: flags, first_sector, utc (the whole seconds of the
\* timestamp, 32 bits), name.
\* struct "<h" takes -32768..32767 only.
SmartFSEntryHeader_get_pack(eh, max_name_len) ==
    IF Len(eh.name) > max_name_len
    THEN [err |-> "ValueError: Name is longer", ret |-> <<>>]
    ELSE IF eh.first_sector > 32767 \/ eh.first_sector < 0 - 32768
    THEN [err |-> "struct.error", ret |-> <<>>]
    ELSE [err |-> OK,
          ret |-> SmartFSDirEntryFlags_get_pack(eh.flags)
                    \o U16LE(eh.first_sector % 65536)
                    \o U32LE(eh.utc)
                    \o eh.name \o Rep(0, max_name_len - Len(eh.name))]

SmartFSEntryHeader_create_from_raw(value) ==
    LET raw == SubSeq(value, 9, Len(value))
        skip == value[9] = 255
    IN  [err |-> IF ~skip /\ (\E i \in 1..Len(raw) : raw[i] >= 128)
                 THEN "UnicodeDecodeError" ELSE OK,
         ret |-> [flags |-> SmartFSDirEntryFlags_create_from_raw(SubSeq(value, 1, 2)),
                  first_sector |-> FromI16LE(SubSeq(value, 3, 4)),
                  utc |-> FromU32LE(SubSeq(value, 5, 8)),
                  name |-> IF skip THEN <<>> ELSE rstrip0(raw)]]

(* ------------------------------------------------------------------ *)
(* base.py: Sector.  A Sector object is its physical sector number and  *)
(* the header it holds; its bytes are the image's.                      *)
(* ------------------------------------------------------------------ *)
_sector_size_byte(cfg) == cnv_to_size(cfg.sector_size)

Put(f, k, v) == [x \in (DOMAIN f) \cup {k} |-> IF x = k THEN v ELSE f[x]]

\* view[b_start:b_end] of the image
SectorBytes(m, cfg, phy) ==
    IF phy \in DOMAIN m.storage THEN m.storage[phy] ELSE Rep(m.blank, _sector_size_byte(cfg))

_calc_crc(header, bytes) ==
    IF header.crc = "none" THEN None
    ELSE checksum(SubSeq(bytes, 6, Len(bytes))
                    \o SubSeq(SectorHeaderV1_get_pack(header), 1, 3)
                    \o <<SectorStatus_get_pack(header.status)>>)

_save_header(header, bytes) ==
    LET pack == SectorHeaderV1_get_pack(header)
    IN  [i \in 1..Len(bytes) |-> IF i <= 5 THEN pack[i] ELSE bytes[i]]

\* Sector(is_new=True, ...): _fill, _calc_crc, _save_header
Sector_new(m, cfg, phy, header) ==
    LET old == SectorBytes(m, cfg, phy)
        filled == [i \in 1..Len(old) |-> IF i = 1 THEN 97 ELSE IF i <= 5 THEN old[i] ELSE 255]
    IN  IF header.crc \notin {"none", "crc8"}
        THEN [m EXCEPT !.storage = Put(m.storage, phy, filled),
                       !.err = "ValueError: CRC value is not supported"]
        ELSE LET h == [header EXCEPT !.crc_value = _calc_crc(header, filled)]
             IN  [m EXCEPT !.storage = Put(m.storage, phy, _save_header(h, filled))]

\* Sector(is_new=False, ...)
Sector_attach(m, cfg, phy) ==
    LET h == SectorHeader_create_from_raw(SubSeq(SectorBytes(m, cfg, phy), 1, 5))
    IN  [err |-> h.err, ret |-> [phy |-> phy, header |-> h.ret]]

\* set_bytes that writes the value and leaves the header, its CRC byte
\* included, as it was.
set_bytes_stale_crc(m, cfg, sector, pfrom, value) ==
    LET old == SectorBytes(m, cfg, sector.phy)
    IN  IF 5 + pfrom + Len(value) > Len(old)
        THEN [m EXCEPT !.err = "ValueError: The end position is greater"]
        ELSE [m EXCEPT !.storage = Put(m.storage, sector.phy,
                        [i \in 1..Len(old) |->
                            IF i > 5 + pfrom /\ i <= 5 + pfrom + Len(value)
                            THEN value[i - (5 + pfrom)] ELSE old[i]])]

set_bytes(m, cfg, sector, pfrom, value) ==
    LET old == SectorBytes(m, cfg, sector.phy)
        start_position == 5 + pfrom
        end_position == 5 + pfrom + Len(value)
    IN  IF end_position > Len(old)
        THEN [m EXCEPT !.err = "ValueError: The end position is greater"]
        ELSE LET written == [i \in 1..Len(old) |->
                                IF i > start_position /\ i <= end_position
                                THEN value[i - start_position] ELSE old[i]]
                 h == [sector.header EXCEPT !.crc_value = _calc_crc(sector.header, written)]
             IN  [m EXCEPT !.storage = Put(m.storage, sector.phy, _save_header(h, written))]

read_object_bytes(m, cfg, sector, offset, size) ==
    LET bytes == SectorBytes(m, cfg, sector.phy)
        b_start == 5 + offset
        b_end == b_start + size
    IN  [err |-> IF b_end > Len(bytes)
                 THEN "ValueError: The end position is greater" ELSE OK,
         ret |-> IF b_end > Len(bytes) THEN <<>> ELSE SubSeq(bytes, b_start + 1, b_end)]

borders_is_big(m, cfg, sector, offset, size) ==
    LET len == Len(SectorBytes(m, cfg, sector.phy))
        b_start == 5 + offset
        b_end == b_start + size
    IN  b_start > len \/ b_end > len

\* ch.next_sector is an unsigned 16-bit value.
get_next_sector_number(m, cfg, sector) ==
    LET bytes == SectorBytes(m, cfg, sector.phy)
        ch == ChainHeader_create_from_raw(SubSeq(bytes, 6, 5 + ChainHeader_get_size))
    IN  [err |-> ch.err,
         ret |-> IF ch.ret.next_sector = 0 - 1 THEN None ELSE ch.ret.next_sector]

(* ------------------------------------------------------------------ *)
(* smart.py: MTDBlockLayer.  m is the layer: storage and blank (the     *)
(* image), st (the SmartStruct), err (the exception that ended the      *)
(* call).                                                               *)
(* A result with a value is [m, ret].                                   *)
(* ------------------------------------------------------------------ *)
Failed(m) == m.err # OK
Raise(m, e) == [m EXCEPT !.err = e]

\* smap[l] of a key of the dict
smap_at(st, l) == IF l \in DOMAIN st.smap THEN st.smap[l] ELSE PS_NOT_ALLOCATED
\* sum(free_sector_map[eb])
count_free_sector(st, eb) ==
    st.sectorsperblk - Cardinality({q \in st.free_sector_map : q[1] = eb})

_initialize(cfg) ==
    LET neraseblocks == cfg.device_size \div cfg.erase_block_size
        sectorsperblk == cfg.erase_block_size \div _sector_size_byte(cfg)
        totalsectors == neraseblocks * sectorsperblk
    IN  [err |-> IF totalsectors > 65536 THEN "ValueError: Invalid SMART sector count" ELSE OK,
         ret |-> [neraseblocks |-> neraseblocks,
                  sectorsperblk |-> sectorsperblk,
                  availsectperblk |-> sectorsperblk,
                  totalsectors |-> IF totalsectors = 65536 THEN totalsectors - 2
                                   ELSE totalsectors,
                  freesectors |-> totalsectors,
                  smap_keys |-> totalsectors,
                  smap |-> <<>>,
                  lastallocblock |-> 0,
                  free_sector_map |-> {}]]

_phy_sector_create(m, cfg, phy_sector_number, logical_sector_number, sequence_number) ==
    Sector_new(m, cfg, phy_sector_number,
               [logical_sector_number |-> logical_sector_number,
                sequence_number |-> sequence_number,
                crc_value |-> 0,
                crc |-> cfg.crc,
                status |-> [committed |-> Commited_committed,
                            released |-> Released_not_released,
                            crc_enable |-> IF cfg.crc = "none" THEN 0 ELSE 1,
                            sector_size |-> cfg.sector_size,
                            format_version |-> Version_v1]])

_phy_sector_get(m, cfg, phy_sector_number) ==
    IF phy_sector_number > 65535 \/ phy_sector_number = PS_NOT_ALLOCATED
    THEN [err |-> "ValueError: Invalid physical sector number",
          ret |-> [phy |-> phy_sector_number, header |-> <<>>]]
    ELSE Sector_attach(m, cfg, phy_sector_number)

\* smap[log_sector] raises KeyError for a number that is no key of the dict.
_log_sector_get(m, cfg, log_sector) ==
    IF log_sector \notin 0..(m.st.smap_keys - 1)
    THEN [err |-> "KeyError", ret |-> [phy |-> PS_NOT_ALLOCATED, header |-> <<>>]]
    ELSE _phy_sector_get(m, cfg, smap_at(m.st, log_sector))

\* The scan that also moves to a block with as many free sectors as the
\* candidate
RECURSIVE scan_blocks_ties(_, _, _)
scan_blocks_ties(st, eb, block) ==
    IF eb >= st.neraseblocks THEN block
    ELSE LET block_count_free_sector == count_free_sector(st, block)
         IN  IF block_count_free_sector = st.sectorsperblk THEN block
             ELSE IF count_free_sector(st, eb) = 0 THEN scan_blocks_ties(st, eb + 1, block)
             ELSE IF count_free_sector(st, eb) >= block_count_free_sector
                  THEN scan_blocks_ties(st, eb + 1, eb)
             ELSE scan_blocks_ties(st, eb + 1, block)

\* The scan of the erase blocks: block is the candidate so far.
RECURSIVE scan_blocks(_, _, _)
scan_blocks(st, eb, block) ==
    IF eb >= st.neraseblocks THEN block
    ELSE LET block_count_free_sector == count_free_sector(st, block)
         IN  IF block_count_free_sector = st.sectorsperblk THEN block
             ELSE IF count_free_sector(st, eb) = 0 THEN scan_blocks(st, eb + 1, block)
             ELSE IF count_free_sector(st, eb) > block_count_free_sector
                  THEN scan_blocks(st, eb + 1, eb)
             ELSE scan_blocks(st, eb + 1, block)

\* _findfreephyssector without the step to the next erase block: the scan
\* starts at lastallocblock itself.
_findfreephyssector_stay(m) ==
    Let(scan_blocks(m.st, 0, m.st.lastallocblock), LAMBDA block :
        IF count_free_sector(m.st, block) = 0
        THEN [m |-> Raise(m, "ValueError: No available physical sector"),
              ret |-> PS_NOT_ALLOCATED]
        ELSE Let(CHOOSE i \in 0..(m.st.sectorsperblk - 1) :
                    /\ <<block, i>> \notin m.st.free_sector_map
                    /\ \A j \in 0..(i - 1) : <<block, j>> \in m.st.free_sector_map,
                 LAMBDA i :
                    [m |-> [m EXCEPT !.st.free_sector_map = @ \cup {<<block, i>>},
                                     !.st.lastallocblock = block],
                     ret |-> block * m.st.sectorsperblk + i]))

\* _findfreephyssector that takes the highest free sector of the block
_findfreephyssector_highest(m) ==
    Let(IF m.st.lastallocblock + 1 >= m.st.neraseblocks
        THEN 0 ELSE m.st.lastallocblock + 1, LAMBDA lastblock :
    Let([m.st EXCEPT !.lastallocblock = lastblock], LAMBDA st1 :
    Let(scan_blocks(st1, 0, lastblock), LAMBDA block :
        IF count_free_sector(st1, block) = 0
        THEN [m |-> Raise([m EXCEPT !.st = st1], "ValueError: No available physical sector"),
              ret |-> PS_NOT_ALLOCATED]
        ELSE Let(CHOOSE i \in 0..(st1.sectorsperblk - 1) :
                    /\ <<block, i>> \notin st1.free_sector_map
                    /\ \A j \in (i + 1)..(st1.sectorsperblk - 1) :
                            <<block, j>> \in st1.free_sector_map,
                 LAMBDA i :
                    [m |-> [m EXCEPT !.st = [st1 EXCEPT
                                !.free_sector_map = @ \cup {<<block, i>>},
                                !.lastallocblock = block]],
                     ret |-> block * st1.sectorsperblk + i]))))

_findfreephyssector(m) ==
    Let(IF m.st.lastallocblock + 1 >= m.st.neraseblocks
        THEN 0 ELSE m.st.lastallocblock + 1, LAMBDA lastblock :
    Let([m.st EXCEPT !.lastallocblock = lastblock], LAMBDA st1 :
    Let(scan_blocks(st1, 0, lastblock), LAMBDA block :
        IF count_free_sector(st1, block) = 0
        THEN [m |-> Raise([m EXCEPT !.st = st1], "ValueError: No available physical sector"),
              ret |-> PS_NOT_ALLOCATED]
        ELSE Let(CHOOSE i \in 0..(st1.sectorsperblk - 1) :
                    /\ <<block, i>> \notin st1.free_sector_map
                    /\ \A j \in 0..(i - 1) : <<block, j>> \in st1.free_sector_map,
                 LAMBDA i :
                    [m |-> [m EXCEPT !.st = [st1 EXCEPT
                                !.free_sector_map = @ \cup {<<block, i>>},
                                !.lastallocblock = block]],
                     ret |-> block * st1.sectorsperblk + i]))))

\* The scan for a logical sector that stops at its first number, free or not
scan_logical_first(st) == SCTN_FIRST_ALLOC_SECTOR

\* The scan from the root directory's number on
scan_logical_from_root(st) ==
    LET free == {x \in {SCTN_ROOT_DIR_SECTOR} \cup {l + 1 : l \in DOMAIN st.smap} :
                    /\ x >= SCTN_ROOT_DIR_SECTOR /\ x < st.totalsectors
                    /\ smap_at(st, x) = PS_NOT_ALLOCATED}
    IN  IF free = {} THEN LS_HIGHT_NUMBER
        ELSE CHOOSE x \in free : \A y \in free : x <= y

\* The first x in range(SCTN_FIRST_ALLOC_SECTOR, totalsectors) with smap[x] free
\* (the first free number is SCTN_FIRST_ALLOC_SECTOR or follows a mapped one)
scan_logical(st) ==
    LET free == {x \in {SCTN_FIRST_ALLOC_SECTOR} \cup {l + 1 : l \in DOMAIN st.smap} :
                    /\ x >= SCTN_FIRST_ALLOC_SECTOR /\ x < st.totalsectors
                    /\ smap_at(st, x) = PS_NOT_ALLOCATED}
    IN  IF free = {} THEN LS_HIGHT_NUMBER
        ELSE CHOOSE x \in free : \A y \in free : x <= y

\* _allocsector without the check of the free sectors left
_allocsector_unguarded(m, cfg, requested, physical_sector) ==
    IF /\ requested >= 0 /\ requested < m.st.totalsectors
       /\ smap_at(m.st, requested) # PS_NOT_ALLOCATED
    THEN [m |-> Raise(m, "ValueError: Sector is already allocated"), ret |-> LS_HIGHT_NUMBER]
    ELSE Let(IF requested >= 0 /\ requested < m.st.totalsectors THEN requested
             ELSE IF requested = LS_HIGHT_NUMBER THEN scan_logical(m.st)
             ELSE LS_HIGHT_NUMBER, LAMBDA logsector :
         IF logsector = LS_HIGHT_NUMBER
         THEN [m |-> Raise(m, "ValueError: No available logical sector"),
               ret |-> LS_HIGHT_NUMBER]
         ELSE Let(IF physical_sector = None THEN _findfreephyssector(m)
                  ELSE [m |-> m, ret |-> physical_sector], LAMBDA found :
              IF Failed(found.m) THEN [m |-> found.m, ret |-> LS_HIGHT_NUMBER]
              ELSE Let(_phy_sector_create(found.m, cfg, found.ret, logsector, 0), LAMBDA m1 :
                   IF Failed(m1) THEN [m |-> m1, ret |-> LS_HIGHT_NUMBER]
                   ELSE [m |-> [m1 EXCEPT !.st.smap = Put(@, logsector, found.ret),
                                          !.st.freesectors = @ - 1],
                         ret |-> logsector])))

\* _allocsector that tests the free-sector floor after it has created the
\* physical sector
_allocsector_floor_late(m, cfg, requested, physical_sector) ==
    IF /\ requested >= 0 /\ requested < m.st.totalsectors
       /\ smap_at(m.st, requested) # PS_NOT_ALLOCATED
    THEN [m |-> Raise(m, "ValueError: Sector is already allocated"), ret |-> LS_HIGHT_NUMBER]
    ELSE Let(IF requested >= 0 /\ requested < m.st.totalsectors THEN requested
             ELSE IF requested = LS_HIGHT_NUMBER THEN scan_logical(m.st)
             ELSE LS_HIGHT_NUMBER, LAMBDA logsector :
         IF logsector = LS_HIGHT_NUMBER
         THEN [m |-> Raise(m, "ValueError: No available logical sector"),
               ret |-> LS_HIGHT_NUMBER]
         ELSE Let(IF physical_sector = None THEN _findfreephyssector(m)
                  ELSE [m |-> m, ret |-> physical_sector], LAMBDA found :
              IF Failed(found.m) THEN [m |-> found.m, ret |-> LS_HIGHT_NUMBER]
              ELSE IF found.ret = PS_NOT_ALLOCATED
              THEN [m |-> Raise(found.m, "ValueError: No available physical sector"),
                    ret |-> LS_HIGHT_NUMBER]
              ELSE Let(_phy_sector_create(found.m, cfg, found.ret, logsector, 0), LAMBDA m1 :
                   IF Failed(m1) THEN [m |-> m1, ret |-> LS_HIGHT_NUMBER]
                   ELSE IF m1.st.freesectors < m1.st.sectorsperblk + 4
                   THEN [m |-> Raise(m1, "ValueError: Not enough free sectors"),
                         ret |-> LS_HIGHT_NUMBER]
                   ELSE [m |-> [m1 EXCEPT !.st.smap = Put(@, logsector, found.ret),
                                          !.st.freesectors = @ - 1],
                         ret |-> logsector])))

_allocsector(m, cfg, requested, physical_sector) ==
    IF m.st.freesectors < m.st.sectorsperblk + 4
    THEN [m |-> Raise(m, "ValueError: Not enough free sectors"), ret |-> LS_HIGHT_NUMBER]
    ELSE IF /\ requested >= 0 /\ requested < m.st.totalsectors
            /\ smap_at(m.st, requested) # PS_NOT_ALLOCATED
    THEN [m |-> Raise(m, "ValueError: Sector is already allocated"), ret |-> LS_HIGHT_NUMBER]
    ELSE Let(IF requested >= 0 /\ requested < m.st.totalsectors THEN requested
             ELSE IF requested = LS_HIGHT_NUMBER THEN scan_logical(m.st)
             ELSE LS_HIGHT_NUMBER, LAMBDA logsector :
         IF logsector = LS_HIGHT_NUMBER
         THEN [m |-> Raise(m, "ValueError: No available logical sector"),
               ret |-> LS_HIGHT_NUMBER]
         ELSE Let(IF physical_sector = None THEN _findfreephyssector(m)
                  ELSE [m |-> m, ret |-> physical_sector], LAMBDA found :
              IF Failed(found.m) THEN [m |-> found.m, ret |-> LS_HIGHT_NUMBER]
              ELSE IF found.ret = PS_NOT_ALLOCATED
              THEN [m |-> Raise(found.m, "ValueError: No available physical sector"),
                    ret |-> LS_HIGHT_NUMBER]
              ELSE Let(_phy_sector_create(found.m, cfg, found.ret, logsector, 0), LAMBDA m1 :
                   IF Failed(m1) THEN [m |-> m1, ret |-> LS_HIGHT_NUMBER]
                   ELSE [m |-> [m1 EXCEPT !.st.smap = Put(@, logsector, found.ret),
                                          !.st.freesectors = @ - 1],
                         ret |-> logsector])))

\* int.to_bytes(length=1, ...) takes 0..255 only.
to_bytes1(m, v) ==
    IF Failed(m) THEN m ELSE IF v < 0 \/ v > 255 THEN Raise(m, "OverflowError") ELSE m

\* set_bytes on a sector that was got without an exception
set_bytes_on(m, cfg, got, pfrom, value) ==
    IF Failed(m) THEN m
    ELSE IF got.err # OK THEN Raise(m, got.err)
    ELSE set_bytes(m, cfg, got.ret, pfrom, value)

_llformat(m, cfg) ==
    Let(_allocsector(m, cfg, 0, 0), LAMBDA a :
    IF Failed(a.m) THEN a.m
    ELSE Let(_phy_sector_get(a.m, cfg, 0), LAMBDA sector :
         Let(set_bytes_on(a.m, cfg, sector, 0, Signature), LAMBDA m1 :
         Let(set_bytes_on(m1, cfg, sector, Len(Signature), <<Version_v1>>), LAMBDA m2 :
         Let(to_bytes1(m2, cfg.max_len_filename), LAMBDA m3 :
         Let(set_bytes_on(m3, cfg, sector, Len(Signature) + 1, <<cfg.max_len_filename>>),
             LAMBDA m4 :
         Let(to_bytes1(m4, cfg.number_root_dir), LAMBDA m5 :
             set_bytes_on(m5, cfg, sector, Len(Signature) + 2,
                          <<cfg.number_root_dir>>))))))))

\* The loop of _fs_media_write from its i-th round on.
RECURSIVE fs_media_write_from(_, _, _)
fs_media_write_from(m, cfg, i) ==
    IF Failed(m) \/ i >= cfg.number_root_dir + 1 THEN m
    ELSE Let(_allocsector(m, cfg, SCTN_ROOT_DIR_SECTOR + i, None), LAMBDA a :
         IF Failed(a.m) THEN a.m
         ELSE fs_media_write_from(
                set_bytes_on(a.m, cfg, _log_sector_get(a.m, cfg, SCTN_ROOT_DIR_SECTOR + i), 0,
                             ChainHeader_get_pack([sector_type |-> SectorType_directory,
                                                   next_sector |-> 65535,
                                                   used |-> 65535])),
                cfg, i + 1))

\* _fs_media_write that makes the last root directory only
_fs_media_write_last_root(m, cfg) == fs_media_write_from(m, cfg, cfg.number_root_dir)

_fs_media_write(m, cfg) == fs_media_write_from(m, cfg, 0)

\* __init__ that formats the storage as it was handed over, without filling it
\* with fill_value first
MTDBlockLayer_init_unfilled(cfg) ==
    Let([storage |-> <<>>, blank |-> 0, st |-> _initialize(cfg).ret,
         err |-> _initialize(cfg).err], LAMBDA m0 :
    IF Failed(m0) \/ ~cfg.formated THEN m0
    ELSE Let(_llformat(m0, cfg), LAMBDA m1 :
         Let(IF Failed(m1) THEN m1 ELSE _fs_media_write(m1, cfg), LAMBDA m2 :
         IF Failed(m2) THEN m2
         ELSE [m2 EXCEPT !.st.free_sector_map = @ \cup {<<0, 0>>}])))

\* MTDBlockLayer.__init__ on the caller's bytearray(device_size)
MTDBlockLayer_init(cfg) ==
    Let([storage |-> <<>>, blank |-> 0, st |-> _initialize(cfg).ret,
         err |-> _initialize(cfg).err], LAMBDA m0 :
    IF Failed(m0) \/ ~cfg.formated THEN m0
    ELSE Let(_llformat([m0 EXCEPT !.blank = 255], cfg), LAMBDA m1 :
         Let(IF Failed(m1) THEN m1 ELSE _fs_media_write(m1, cfg), LAMBDA m2 :
         IF Failed(m2) THEN m2
         ELSE [m2 EXCEPT !.st.free_sector_map = @ \cup {<<0, 0>>}])))

(* ------------------------------------------------------------------ *)
(* Text: str methods and os.path.split on sequences of ASCII codes      *)
(* ------------------------------------------------------------------ *)
Slash == 47

startswith_slash_nonempty(path) == Len(path) > 0
startswith_slash(path) == Len(path) > 0 /\ path[1] = Slash

\* The index of the last "/" of path, 0 when there is none.
rfind_slash(path) ==
    LET at == {i \in 1..Len(path) : path[i] = Slash}
    IN  IF at = {} THEN 0 ELSE CHOOSE i \in at : \A j \in at : j <= i

\* str.rstrip("/")
rstrip_slash(path) ==
    LET keep == {i \in 1..Len(path) : path[i] # Slash}
    IN  IF keep = {} THEN <<>>
        ELSE SubSeq(path, 1, CHOOSE i \in keep : \A j \in keep : j <= i)

\* str.strip("/")
strip_slash(path) ==
    LET keep == {i \in 1..Len(path) : path[i] # Slash}
    IN  IF keep = {} THEN <<>>
        ELSE SubSeq(path, CHOOSE i \in keep : \A j \in keep : i <= j,
                          CHOOSE i \in keep : \A j \in keep : j <= i)

\* str.split("/"): the list of the pieces between the "/"
RECURSIVE split_slash(_)
split_slash(text) ==
    LET at == {i \in 1..Len(text) : text[i] = Slash}
    IN  IF at = {} THEN <<text>>
        ELSE LET k == CHOOSE i \in at : \A j \in at : i <= j
             IN  <<SubSeq(text, 1, k - 1)>> \o split_slash(SubSeq(text, k + 1, Len(text)))

\* path.rsplit("/", maxsplit=1) of a path that holds a "/"
rsplit_slash(path) ==
    LET k == rfind_slash(path)
    IN  <<SubSeq(path, 1, k - 1), SubSeq(path, k + 1, Len(path))>>

\* os.path.split (posixpath)
os_path_split(path) ==
    LET i == rfind_slash(path)
        head == SubSeq(path, 1, i)
        tail == SubSeq(path, i + 1, Len(path))
    IN  IF Len(head) > 0 /\ head # Rep(Slash, Len(head))
        THEN <<rstrip_slash(head), tail>> ELSE <<head, tail>>

(* ------------------------------------------------------------------ *)
(* smart_high.py: SmartHigh, lookups                                    *)
(* ------------------------------------------------------------------ *)
NoEntry == [first_sector |-> 0, dir_sector |-> 0, dir_offset |-> 0, name |-> <<>>]

_create_smart_entry_root(m, cfg) ==
    Let(_log_sector_get(m, cfg, SCTN_ROOT_DIR_SECTOR), LAMBDA sector :
    IF sector.err # OK THEN [err |-> sector.err, ret |-> NoEntry]
    ELSE [err |-> OK,
          ret |-> [first_sector |-> sector.ret.header.logical_sector_number,
                   dir_sector |-> sector.ret.header.logical_sector_number,
                   dir_offset |-> 0,
                   name |-> <<Slash>>]])

\* The "while True" of _finddirentry over the entry headers of one sector:
\* [err, found, entry].  (-1).to_bytes(2, "little") raises OverflowError.
RECURSIVE read_all_entry_header(_, _, _, _, _)
read_all_entry_header(m, cfg, sector, dir, dir_offset) ==
    Let(SmartFSEntryHeader_get_size(cfg.max_len_filename), LAMBDA size_entry_header :
    Let(read_object_bytes(m, cfg, sector, ChainHeader_get_size + dir_offset,
                          size_entry_header), LAMBDA raw :
    IF raw.err # OK THEN [err |-> raw.err, found |-> FALSE, entry |-> NoEntry]
    ELSE Let(SmartFSEntryHeader_create_from_raw(raw.ret), LAMBDA eh :
         IF eh.err # OK THEN [err |-> eh.err, found |-> FALSE, entry |-> NoEntry]
         ELSE IF eh.ret.first_sector < 0
         THEN [err |-> "OverflowError", found |-> FALSE, entry |-> NoEntry]
         ELSE IF U16LE(eh.ret.first_sector) = <<255, 255>>
         THEN [err |-> OK, found |-> FALSE, entry |-> NoEntry]
         ELSE IF eh.ret.name = dir
         THEN [err |-> OK, found |-> TRUE,
               entry |-> [first_sector |-> eh.ret.first_sector,
                          dir_sector |-> sector.header.logical_sector_number,
                          dir_offset |-> dir_offset,
                          name |-> eh.ret.name]]
         ELSE read_all_entry_header(m, cfg, sector, dir,
                                    dir_offset + size_entry_header))))

\* "for sector in self._walk_sectors_in_entry(entry)" of _finddirentry from the
\* sector sector_log_num on: [err, found, entry], entry the last one adopted.
RECURSIVE find_in_chain(_, _, _, _, _, _)
find_in_chain(m, cfg, sector_log_num, dir, is_found, entry) ==
    Let(_log_sector_get(m, cfg, sector_log_num), LAMBDA sector :
    IF sector.err # OK THEN [err |-> sector.err, found |-> is_found, entry |-> entry]
    ELSE Let(read_all_entry_header(m, cfg, sector.ret, dir, 0), LAMBDA r :
         IF r.err # OK THEN [err |-> r.err, found |-> is_found, entry |-> entry]
         ELSE Let(get_next_sector_number(m, cfg, sector.ret), LAMBDA next :
              Let(is_found \/ r.found, LAMBDA found1 :
              Let(IF r.found THEN r.entry ELSE entry, LAMBDA entry1 :
              IF next.err # OK THEN [err |-> next.err, found |-> found1, entry |-> entry1]
              ELSE IF next.ret = None THEN [err |-> OK, found |-> found1, entry |-> entry1]
              ELSE find_in_chain(m, cfg, next.ret, dir, found1, entry1))))))

\* The loop of _finddirentry over the components dirs[i..]
RECURSIVE find_components(_, _, _, _, _)
find_components(m, cfg, dirs, i, entry) ==
    IF i > Len(dirs) THEN [err |-> OK, ret |-> entry]
    ELSE Let(find_in_chain(m, cfg, entry.first_sector, dirs[i], FALSE, entry), LAMBDA r :
         IF r.err # OK THEN [err |-> r.err, ret |-> NoEntry]
         ELSE IF ~r.found THEN [err |-> "ValueError: Directory not found", ret |-> NoEntry]
         ELSE find_components(m, cfg, dirs, i + 1, r.entry))

_finddirentry(m, cfg, path_abs) ==
    IF ~startswith_slash(path_abs)
    THEN [err |-> "ValueError: Path must be absolute", ret |-> NoEntry]
    ELSE Let(_create_smart_entry_root(m, cfg), LAMBDA root :
         IF root.err # OK \/ path_abs = <<Slash>> THEN root
         ELSE find_components(m, cfg, split_slash(strip_slash(path_abs)), 1, root.ret))

\* The sectors _walk_sectors_in_entry yields, and how the generator ends:
\* [err, ret], ret the logical numbers in the order yielded.
RECURSIVE walk_from(_, _, _, _)
walk_from(m, cfg, sector_log_num, yielded) ==
    Let(_log_sector_get(m, cfg, sector_log_num), LAMBDA sector :
    IF sector.err # OK THEN [err |-> sector.err, ret |-> yielded]
    ELSE Let(get_next_sector_number(m, cfg, sector.ret), LAMBDA next :
         Let(Append(yielded, sector_log_num), LAMBDA out :
         IF next.err # OK THEN [err |-> next.err, ret |-> out]
         ELSE IF next.ret = None THEN [err |-> OK, ret |-> out]
         ELSE walk_from(m, cfg, next.ret, out))))

_walk_sectors_in_entry(m, cfg, entry) == walk_from(m, cfg, entry.first_sector, <<>>)

(* ------------------------------------------------------------------ *)
(* smart_high.py: SmartHigh, entries and files                          *)
(* ------------------------------------------------------------------ *)
NoHeader ==
    [flags |-> [empty |-> 1, active |-> 1, type |-> 1, deleting |-> 1, mode |-> 511],
     first_sector |-> 0 - 1, utc |-> U32(0), name |-> <<>>]
NoSector == [phy |-> PS_NOT_ALLOCATED, header |-> <<>>]

\* The chain header of sector is left as it is: the new sector is not linked.
set_next_sector_skipped(m, cfg, sector, sector_number) == m

\* sector.read_object(ChainHeader, 0, 5) with next_sector set to sector_number,
\* written back by sector.set_bytes(0, ...)
set_next_sector(m, cfg, sector, sector_number) ==
    Let(read_object_bytes(m, cfg, sector, 0, ChainHeader_get_size), LAMBDA raw :
    IF raw.err # OK THEN Raise(m, raw.err)
    ELSE Let(ChainHeader_create_from_raw(raw.ret), LAMBDA ch :
         IF ch.err # OK THEN Raise(m, ch.err)
         ELSE set_bytes(m, cfg, sector, 0,
                        ChainHeader_get_pack([ch.ret EXCEPT !.next_sector = sector_number]))))

\* The branch "if next_sector is None" of _createentry: a new sector at the
\* end of the parent's chain.  [m, ret], ret the new logical sector.
create_next_sector(m, cfg, sector) ==
    Let(_allocsector(m, cfg, LS_HIGHT_NUMBER, None), LAMBDA a :
    IF Failed(a.m) THEN a
    ELSE Let(set_bytes_on(a.m, cfg, _log_sector_get(a.m, cfg, a.ret), 0,
                          ChainHeader_get_pack([sector_type |-> SectorType_directory,
                                                next_sector |-> 65535,
                                                used |-> 65535])), LAMBDA m1 :
         IF Failed(m1) THEN [m |-> m1, ret |-> a.ret]
         ELSE [m |-> set_next_sector(m1, cfg, sector, a.ret), ret |-> a.ret]))

\* sector.read_object(SmartFSEntryHeader, offset, size_header): [err, ret]
read_entry_header(m, cfg, sector, offset) ==
    Let(read_object_bytes(m, cfg, sector, offset,
                          SmartFSEntryHeader_get_size(cfg.max_len_filename)), LAMBDA raw :
    IF raw.err # OK THEN [err |-> raw.err, ret |-> NoHeader]
    ELSE SmartFSEntryHeader_create_from_raw(raw.ret))

\* The branch "if sector.borders_is_big(...)" of _createentry: to the next
\* sector of the chain, created if need be.  [m, sector, offset]
next_dir_sector(m, cfg, sector) ==
    Let(get_next_sector_number(m, cfg, sector), LAMBDA next :
    IF next.err # OK
    THEN [m |-> Raise(m, next.err), sector |-> sector, offset |-> ChainHeader_get_size]
    ELSE Let(IF next.ret = None THEN create_next_sector(m, cfg, sector)
             ELSE [m |-> m, ret |-> next.ret], LAMBDA made :
         IF Failed(made.m)
         THEN [m |-> made.m, sector |-> sector, offset |-> ChainHeader_get_size]
         ELSE Let(_log_sector_get(made.m, cfg, made.ret), LAMBDA got :
              [m |-> IF got.err # OK THEN Raise(made.m, got.err) ELSE made.m,
               sector |-> got.ret,
               offset |-> ChainHeader_get_size])))

\* The "while True" of _createentry: [m, sector, offset, entry], the empty
\* entry found at offset of sector.
RECURSIVE find_empty_entry(_, _, _, _)
find_empty_entry(m, cfg, sector, offset) ==
    Let(IF borders_is_big(m, cfg, sector, offset,
                          SmartFSEntryHeader_get_size(cfg.max_len_filename))
        THEN next_dir_sector(m, cfg, sector)
        ELSE [m |-> m, sector |-> sector, offset |-> offset], LAMBDA at :
    IF Failed(at.m)
    THEN [m |-> at.m, sector |-> at.sector, offset |-> at.offset, entry |-> NoHeader]
    ELSE Let(read_entry_header(at.m, cfg, at.sector, at.offset), LAMBDA entry :
         IF entry.err # OK
         THEN [m |-> Raise(at.m, entry.err), sector |-> at.sector, offset |-> at.offset,
               entry |-> NoHeader]
         ELSE IF entry.ret.first_sector = 0 - 1
         THEN [m |-> at.m, sector |-> at.sector, offset |-> at.offset, entry |-> entry.ret]
         ELSE find_empty_entry(at.m, cfg, at.sector,
                at.offset + SmartFSEntryHeader_get_size(cfg.max_len_filename))))

\* _createentry that stamps every new sector as a directory's
_createentry_dir_sector(m, cfg, entry_parent, name, entry_type, mode, utc) ==
    IF Len(name) > cfg.max_len_filename
    THEN [m |-> Raise(m, "ValueError: Filename too long"), ret |-> NoHeader]
    ELSE Let(_log_sector_get(m, cfg, entry_parent.first_sector), LAMBDA parent :
    IF parent.err # OK THEN [m |-> Raise(m, parent.err), ret |-> NoHeader]
    ELSE Let(find_empty_entry(m, cfg, parent.ret, ChainHeader_get_size), LAMBDA slot :
    IF Failed(slot.m) THEN [m |-> slot.m, ret |-> NoHeader]
    ELSE Let(_allocsector(slot.m, cfg, LS_HIGHT_NUMBER, None), LAMBDA a :
    IF Failed(a.m) THEN [m |-> a.m, ret |-> NoHeader]
    ELSE Let(set_bytes_on(a.m, cfg, _log_sector_get(a.m, cfg, a.ret), 0,
                ChainHeader_get_pack([sector_type |-> SectorType_directory,
                                      next_sector |-> 65535,
                                      used |-> 65535])), LAMBDA m1 :
    IF Failed(m1) THEN [m |-> m1, ret |-> NoHeader]
    ELSE Let([slot.entry EXCEPT !.name = name,
                                !.first_sector = a.ret,
                                !.utc = U32(utc),
                                !.flags.empty = 0,
                                !.flags.type = entry_type,
                                !.flags.mode = mode], LAMBDA entry :
    Let(SmartFSEntryHeader_get_pack(entry, cfg.max_len_filename), LAMBDA pack :
    IF pack.err # OK THEN [m |-> Raise(m1, pack.err), ret |-> NoHeader]
    ELSE [m |-> set_bytes(m1, cfg, slot.sector, slot.offset, pack.ret),
          ret |-> entry]))))))

\* [m, ret], ret the entry header written.  utc is the clock's reading.
_createentry(m, cfg, entry_parent, name, entry_type, mode, utc) ==
    IF Len(name) > cfg.max_len_filename
    THEN [m |-> Raise(m, "ValueError: Filename too long"), ret |-> NoHeader]
    ELSE Let(_log_sector_get(m, cfg, entry_parent.first_sector), LAMBDA parent :
    IF parent.err # OK THEN [m |-> Raise(m, parent.err), ret |-> NoHeader]
    ELSE Let(find_empty_entry(m, cfg, parent.ret, ChainHeader_get_size), LAMBDA slot :
    IF Failed(slot.m) THEN [m |-> slot.m, ret |-> NoHeader]
    ELSE Let(_allocsector(slot.m, cfg, LS_HIGHT_NUMBER, None), LAMBDA a :
    IF Failed(a.m) THEN [m |-> a.m, ret |-> NoHeader]
    ELSE Let(set_bytes_on(a.m, cfg, _log_sector_get(a.m, cfg, a.ret), 0,
                ChainHeader_get_pack([sector_type |-> IF entry_type = SmartFSDirEntryType_dir
                                                      THEN SectorType_directory
                                                      ELSE SectorType_file,
                                      next_sector |-> 65535,
                                      used |-> 65535])), LAMBDA m1 :
    IF Failed(m1) THEN [m |-> m1, ret |-> NoHeader]
    ELSE Let([slot.entry EXCEPT !.name = name,
                                !.first_sector = a.ret,
                                !.utc = U32(utc),
                                !.flags.empty = 0,
                                !.flags.type = entry_type,
                                !.flags.mode = mode], LAMBDA entry :
    Let(SmartFSEntryHeader_get_pack(entry, cfg.max_len_filename), LAMBDA pack :
    IF pack.err # OK THEN [m |-> Raise(m1, pack.err), ret |-> NoHeader]
    ELSE [m |-> set_bytes(m1, cfg, slot.sector, slot.offset, pack.ret),
          ret |-> entry]))))))

cmd_mkdir(m, cfg, path, mode, utc) ==
    IF ~startswith_slash(path) THEN Raise(m, "ValueError: Path must be absolute")
    ELSE IF path = <<Slash>> THEN Raise(m, "ValueError: Can't create root directory")
    ELSE Let(rsplit_slash(path), LAMBDA parts :
         Let(_finddirentry(m, cfg, IF parts[1] = <<>> THEN <<Slash>> ELSE parts[1]),
             LAMBDA entry :
         IF entry.err # OK THEN Raise(m, entry.err)
         ELSE _createentry(m, cfg, entry.ret, parts[2], SmartFSDirEntryType_dir,
                           mode, utc).m))

\* The loop "for i in range(0, len(body), empty_size_in_sector)" from offset i
\* on; sector is the sector written in the round before.
\* The loop of cmd_file_create_write without the CH stamped on the sector
\* written: a sector keeps the CH it had when the data went in.
RECURSIVE fill_content_unstamped(_, _, _, _, _, _)
fill_content_unstamped(m, cfg, entry_h_file, body, i, sector) ==
    IF i >= Len(body) THEN m
    ELSE
    Let(_sector_size_byte(cfg) - 5 - ChainHeader_get_size, LAMBDA empty_size_in_sector :
    Let(IF i = 0 THEN [m |-> m, ret |-> entry_h_file.first_sector]
        ELSE _allocsector(m, cfg, LS_HIGHT_NUMBER, None), LAMBDA a :
    IF Failed(a.m) THEN a.m
    ELSE Let(IF i = 0 THEN a.m ELSE set_next_sector(a.m, cfg, sector, a.ret), LAMBDA m1 :
    IF Failed(m1) THEN m1
    ELSE Let(_log_sector_get(m1, cfg, a.ret), LAMBDA got :
    Let(SubSeq(body, i + 1, IF i + empty_size_in_sector < Len(body)
                            THEN i + empty_size_in_sector ELSE Len(body)), LAMBDA data :
    Let(set_bytes_on(m1, cfg, got, ChainHeader_get_size, data), LAMBDA m2 :
    IF Failed(m2) THEN m2
    ELSE fill_content_unstamped(m2, cfg, entry_h_file, body, i + empty_size_in_sector,
                                got.ret)))))))

RECURSIVE fill_content(_, _, _, _, _, _)
fill_content(m, cfg, entry_h_file, body, i, sector) ==
    IF i >= Len(body) THEN m
    ELSE
    Let(_sector_size_byte(cfg) - 5 - ChainHeader_get_size, LAMBDA empty_size_in_sector :
    Let(IF i = 0 THEN [m |-> m, ret |-> entry_h_file.first_sector]
        ELSE _allocsector(m, cfg, LS_HIGHT_NUMBER, None), LAMBDA a :
    IF Failed(a.m) THEN a.m
    ELSE Let(IF i = 0 THEN a.m ELSE set_next_sector(a.m, cfg, sector, a.ret), LAMBDA m1 :
    IF Failed(m1) THEN m1
    ELSE Let(_log_sector_get(m1, cfg, a.ret), LAMBDA got :
    Let(SubSeq(body, i + 1, IF i + empty_size_in_sector < Len(body)
                            THEN i + empty_size_in_sector ELSE Len(body)), LAMBDA data :
    Let(set_bytes_on(m1, cfg, got, ChainHeader_get_size, data), LAMBDA m2 :
    Let(set_bytes_on(m2, cfg, got, 0,
                     ChainHeader_get_pack([sector_type |-> SectorType_file,
                                           next_sector |-> 65535,
                                           used |-> Len(data)])), LAMBDA m3 :
    IF Failed(m3) THEN m3
    ELSE fill_content(m3, cfg, entry_h_file, body, i + empty_size_in_sector,
                      got.ret))))))))

cmd_file_create_write(m, cfg, path, body, mode, utc) ==
    IF ~startswith_slash(path) THEN Raise(m, "ValueError: Path must be absolute")
    ELSE Let(os_path_split(path), LAMBDA parts :
         Let(_finddirentry(m, cfg, parts[1]), LAMBDA dir_entry :
         IF dir_entry.err # OK THEN Raise(m, dir_entry.err)
         ELSE Let(_createentry(m, cfg, dir_entry.ret, parts[2],
                               SmartFSDirEntryType_file, mode, utc), LAMBDA entry_h_file :
              IF Failed(entry_h_file.m) THEN entry_h_file.m
              ELSE fill_content(entry_h_file.m, cfg, entry_h_file.ret, body, 0, NoSector))))

(* ------------------------------------------------------------------ *)
(* script.py                                                            *)
(* ------------------------------------------------------------------ *)
\* The blanks int() skips around an ASCII text, and str.isdigit
py_isspace(c) == c \in (9..13) \cup {32}
py_isdigit(c) == c \in 48..57

\* text.strip()
py_strip(text) ==
    LET kept == {i \in 1..Len(text) : ~py_isspace(text[i])}
    IN  IF kept = {} THEN <<>>
        ELSE SubSeq(text, CHOOSE i \in kept : \A j \in kept : i <= j,
                          CHOOSE i \in kept : \A j \in kept : j <= i)

\* int(text) returns (it raises ValueError otherwise): blanks around, a sign,
\* then decimal digits, with single underscores between digits
int_accepts(text) ==
    LET stripped == py_strip(text)
        digits == IF Len(stripped) > 0 /\ stripped[1] \in {43, 45}
                  THEN Tail(stripped) ELSE stripped
    IN  /\ Len(digits) > 0
        /\ \A i \in 1..Len(digits) : py_isdigit(digits[i]) \/ digits[i] = 95
        /\ digits[1] # 95
        /\ digits[Len(digits)] # 95
        /\ \A i \in 1..(Len(digits) - 1) : ~(digits[i] = 95 /\ digits[i + 1] = 95)

\* check_mode(mode, help): the length is 3 and int(mode) does not raise
check_mode(mode, help) ==
    IF Len(mode) # 3 THEN "ValueError: mode must be 3 symbols"
    ELSE IF ~int_accepts(mode) THEN "ValueError: Mode must be integer"
    ELSE OK

\* ModeBits.create_from_str(text): three octal digits, owner, group, other
ModeBits_create_from_str(text) ==
    IF Len(text) = 3 /\ \A i \in 1..Len(text) : text[i] \in 48..55
    THEN [err |-> OK,
          ret |-> (text[1] - 48) * 64 + (text[2] - 48) * 8 + (text[3] - 48)]
    ELSE [err |-> "ValueError: mode", ret |-> 0]

\* str(Path(".")): the base directory relative to itself
Dot == <<46>>

\* The directory that holds the entry p of the tree (p relative to the base
\* directory)
HostParent(p) ==
    IF rfind_slash(p) = 0 THEN Dot ELSE SubSeq(p, 1, rfind_slash(p) - 1)

\* [p for p in cdir.iterdir() if p.is_dir()], without its order
iterdir_dirs(tree, cdir) == {p \in tree.dirs : HostParent(p) = cdir}

\* The orders in which iterdir() may list the directories S
Orders(S) ==
    {o \in [1..Cardinality(S) -> S] : \A i, j \in 1..Cardinality(S) : o[i] = o[j] => i = j}

(* ------------------------------------------------------------------ *)
(* The builds checked: configurations, paths, bodies                    *)
(* ------------------------------------------------------------------ *)
\* At most MaxOps calls of cmd_mkdir / cmd_file_create_write in a build.
MaxOps == 2
\* The longest body fills MaxBodySectors sectors and one byte more.
MaxBodySectors == 2
\* At most MaxAllocs direct calls of _allocsector on a layer.
MaxAllocs == 8
\* The mode strings checked have at most MaxModeLen characters.
MaxModeLen == 4

\* datetime.now(): the clock reads one of two seconds (since the epoch).
Epoch == 1718147692
Clock == {Epoch, Epoch + 1}

Config(device_size, erase_block_size, sector_size, crc, max_len_filename, number_root_dir) ==
    [device_size |-> device_size, erase_block_size |-> erase_block_size,
     sector_size |-> sector_size, crc |-> crc, max_len_filename |-> max_len_filename,
     number_root_dir |-> number_root_dir, formated |-> TRUE]

\* 16 sectors of 256 bytes in 4 erase blocks: 4 logical sectors to allocate
CfgPlain == Config(4096, 1024, 0, "none", 16, 0)
\* 16 sectors in 2 erase blocks: the free-sector floor is reached first
CfgTight == Config(4096, 2048, 0, "none", 16, 0)
\* one entry header per directory sector
CfgWideName == Config(4096, 1024, 0, "none", 238, 0)
\* as many root directories as erase blocks, CRC-8
CfgRoots == Config(4096, 1024, 0, "crc8", 16, 3)
\* 65536 sectors of 256 bytes
CfgHuge == Config(16777216, 4194304, 0, "none", 16, 0)
\* a single erase block
CfgOneBlock == Config(1024, 1024, 0, "none", 16, 0)
\* sectors of 512 bytes, two root directories
CfgB512 == Config(8192, 2048, 1, "crc8", 16, 1)

Configs == {CfgPlain, CfgTight, CfgWideName, CfgRoots, CfgHuge, CfgOneBlock, CfgB512}

\* A name one longer than allowed
LongName(cfg) == Rep(120, cfg.max_len_filename + 1)
\* "/a", "/a/b", "a", "/", "//", and the long name under "/" and under "/a"
MkdirPaths(cfg) ==
    {<<Slash, 97>>, <<Slash, 97, Slash, 98>>, <<97>>, <<Slash>>, <<Slash, Slash>>,
     <<Slash>> \o LongName(cfg), <<Slash, 97, Slash>> \o LongName(cfg)}
\* "/f", "/a/f", "f", "/", and the long name under "/" and under "/a"
FilePaths(cfg) ==
    {<<Slash, 102>>, <<Slash, 97, Slash, 102>>, <<102>>, <<Slash>>,
     <<Slash>> \o LongName(cfg), <<Slash, 97, Slash>> \o LongName(cfg)}

\* The payload of a file sector
Payload(cfg) == _sector_size_byte(cfg) - 5 - ChainHeader_get_size
BodyOf(len) == [i \in 1..len |-> (i * 37 + 11) % 256]
BodyLens(cfg) == {0, Payload(cfg), Payload(cfg) + 1, MaxBodySectors * Payload(cfg) + 1}
\* "/f" is written with every body, the other paths with one byte
Bodies(cfg, path) ==
    IF path = <<Slash, 102>> THEN {BodyOf(n) : n \in BodyLens(cfg)} ELSE {BodyOf(1)}

\* cmd_mkdir's and cmd_file_create_write's default mode: 0o777, 0o666
DirMode == 511
FileMode == 438

(* ------------------------------------------------------------------ *)
(* The state machine                                                    *)
(* ------------------------------------------------------------------ *)
VARIABLES
    smartfs_config,   \* the configuration and geometry the builder was given
    phase,            \* "new", "ready" (constructed), "failed" (__init__ raised)
    storage,          \* _storage: the sectors written
    blank,            \* _storage: every byte not written
    smart_struct,     \* _smart_struct
    last,             \* the call that just ended: op, path, body, err
    nops,             \* the calls made so far
    script,           \* script.py: the arguments, the position in main, its locals
    codec,            \* base.py: an object, its packed bytes, the object read back
    twin              \* a second builder given the same calls: its layer

vars == <<smartfs_config, phase, storage, blank, smart_struct, last, nops, script, codec, twin>>

NoCall == [op |-> "none", path |-> <<>>, body |-> <<>>, err |-> OK]
\* script.py is not run: the builder is used as a library
NoScript == [pc |-> "none"]
\* no codec of base.py is exercised on its own
NoCodec == [pc |-> "none"]
\* there is one builder only
NoTwin == [pc |-> "none"]

\* The layer as the operators take it
Layer == [storage |-> storage, blank |-> blank, st |-> smart_struct, err |-> OK]

Init ==
    /\ smartfs_config \in Configs
    /\ phase = "new"
    /\ storage = <<>>
    /\ blank = 0
    /\ smart_struct = _initialize(smartfs_config).ret
    /\ last = NoCall
    /\ nops = 0
    /\ script = NoScript
    /\ codec = NoCodec
    /\ twin = NoTwin

\* The call op(path, body) ended and left the layer m.
Ended(m, op, path, body) ==
    /\ storage' = m.storage
    /\ blank' = m.blank
    /\ smart_struct' = m.st
    /\ last' = [op |-> op, path |-> path, body |-> body, err |-> m.err]

\* SmartHigh(storage=bytearray(device_size), formated=True, ...)
Construct ==
    /\ phase = "new"
    /\ Ended(MTDBlockLayer_init(smartfs_config), "init", <<>>, <<>>)
    /\ phase' = IF last'.err # OK THEN "failed" ELSE "ready"
    /\ UNCHANGED <<smartfs_config, nops, script, codec, twin>>

Idle == phase = "ready" /\ last.op \in {"none", "init"}

Mkdir ==
    /\ Idle
    /\ nops < MaxOps
    /\ \E path \in MkdirPaths(smartfs_config), utc \in Clock :
        Ended(cmd_mkdir(Layer, smartfs_config, path, DirMode, utc), "cmd_mkdir", path, <<>>)
    /\ nops' = nops + 1
    /\ UNCHANGED <<smartfs_config, phase, script, codec, twin>>

FileCreateWrite ==
    /\ Idle
    /\ nops < MaxOps
    /\ \E path \in FilePaths(smartfs_config), utc \in Clock :
       \E body \in Bodies(smartfs_config, path) :
        Ended(cmd_file_create_write(Layer, smartfs_config, path, body, FileMode, utc),
              "cmd_file_create_write", path, body)
    /\ nops' = nops + 1
    /\ UNCHANGED <<smartfs_config, phase, script, codec, twin>>

\* The caller takes the outcome of the call (the value or the exception)
\* and goes on.
Return ==
    /\ phase = "ready"
    /\ last.op \in {"cmd_mkdir", "cmd_file_create_write"}
    /\ last' = NoCall
    /\ UNCHANGED <<smartfs_config, phase, storage, blank, smart_struct, nops, script, codec, twin>>

Next == Construct \/ Mkdir \/ FileCreateWrite \/ Return

Spec == Init /\ [][Next]_vars

\* The logical numbers _allocsector is asked for: any free one (the default),
\* the root directory's (taken), a free one below SCTN_FIRST_ALLOC_SECTOR and
\* one beyond every geometry but the largest.
Requested == {LS_HIGHT_NUMBER, SCTN_ROOT_DIR_SECTOR, SCTN_ROOT_DIR_SECTOR + 8, 65000, 65534}

\* _allocsector(requested) called on the constructed layer
AllocSector ==
    /\ phase = "ready"
    /\ nops < MaxAllocs
    /\ \E requested \in Requested :
        Let(_allocsector(Layer, smartfs_config, requested, None), LAMBDA r :
            /\ storage' = r.m.storage
            /\ blank' = r.m.blank
            /\ smart_struct' = r.m.st
            /\ last' = [op |-> "_allocsector", path |-> <<>>, body |-> <<>>,
                        err |-> r.m.err, requested |-> requested, ret |-> r.ret])
    /\ nops' = nops + 1
    /\ UNCHANGED <<smartfs_config, phase, script, codec, twin>>

NextAlloc == Construct \/ AllocSector

\* The layer under construction and direct allocation only
SpecAlloc == Init /\ [][NextAlloc]_vars

(* ------------------------------------------------------------------ *)
(* script.py as a process                                               *)
(* ------------------------------------------------------------------ *)
\* main's defaults: --storage-size 1048576 with erase blocks of 4096 bytes and
\* sectors of 1024
CfgMain == Config(1048576, 4096, 2, "none", 16, 0)

\* The base directories: none, an empty one, the one of the tests (file1.txt,
\* file2.txt, dir1/file3.txt, dir1/dir2/file4.txt), a flat one (a, b, f) and
\* one with a, b, a/c
HostTree(exists, dirs, files) == [exists |-> exists, dirs |-> dirs, files |-> files]
TreeAbsent == HostTree(FALSE, {}, {})
TreeEmpty == HostTree(TRUE, {}, {})
TreeTest ==
    HostTree(TRUE,
             {<<100, 105, 114, 49>>, <<100, 105, 114, 49, 47, 100, 105, 114, 50>>},
             {<<<<102, 105, 108, 101, 49, 46, 116, 120, 116>>, <<70, 105, 108, 101, 32, 49>>>>,
              <<<<102, 105, 108, 101, 50, 46, 116, 120, 116>>, <<70, 105, 108, 101, 32, 50>>>>,
              <<<<100, 105, 114, 49, 47, 102, 105, 108, 101, 51, 46, 116, 120, 116>>,
                <<70, 105, 108, 101, 32, 51>>>>,
              <<<<100, 105, 114, 49, 47, 100, 105, 114, 50, 47, 102, 105, 108, 101, 52, 46,
                  116, 120, 116>>, <<70, 105, 108, 101, 32, 52>>>>})
TreeFlat == HostTree(TRUE, {<<97>>, <<98>>}, {<<<<102>>, <<70, 105, 108, 101, 32, 49>>>>})
TreeWide == HostTree(TRUE, {<<97>>, <<98>>, <<97, 47, 99>>}, {})
Trees == {TreeAbsent, TreeEmpty, TreeTest, TreeFlat, TreeWide}

\* --dir-mode: "777" (the default), "abc"; --file-mode: "666" (the default)
DirModeArgs == {<<55, 55, 55>>, <<97, 98, 99>>}
FileModeArgs == {<<54, 54, 54>>}

\* The characters of the mode strings: "0", "7", "8", "a", "+", " ", "_"
ModeChars == {48, 55, 56, 97, 43, 32, 95}
ModeStrings == UNION {[1..n -> ModeChars] : n \in 0..MaxModeLen}

\* No call of check_mode has been made
NoCheck == [mode |-> <<>>, err |-> "none"]

InitScript ==
    /\ smartfs_config = CfgMain
    /\ phase = "new"
    /\ storage = <<>>
    /\ blank = 0
    /\ smart_struct = _initialize(smartfs_config).ret
    /\ last = NoCall
    /\ nops = 0
    /\ codec = NoCodec
    /\ twin = NoTwin
    /\ \E tree \in Trees, dir_mode \in DirModeArgs, file_mode \in FileModeArgs :
        script = [pc |-> "loaded", checked |-> NoCheck,
                  args |-> [base_dir |-> tree, dir_mode |-> dir_mode,
                            file_mode |-> file_mode],
                  dir_mode |-> 0, file_mode |-> 0,
                  queue |-> <<>>, result |-> <<>>, dirs |-> <<>>, files |-> {},
                  calls |-> <<>>, err |-> OK, out |-> None]

\* check_mode(mode, help) called on the loaded module
CheckMode ==
    /\ script.pc = "loaded"
    /\ script.checked = NoCheck
    /\ \E mode \in ModeStrings :
        script' = [script EXCEPT !.checked = [mode |-> mode,
                                              err |-> check_mode(mode, "file")]]
    /\ UNCHANGED <<smartfs_config, phase, storage, blank, smart_struct, last, nops, codec, twin>>

\* main: dir_mode, file_mode = ModeBits.create_from_str(...)
MainModes ==
    /\ script.pc = "loaded"
    /\ script.checked = NoCheck
    /\ Let(ModeBits_create_from_str(script.args.dir_mode), LAMBDA d :
       Let(ModeBits_create_from_str(script.args.file_mode), LAMBDA f :
        script' = IF d.err # OK THEN [script EXCEPT !.pc = "raised", !.err = d.err]
                  ELSE IF f.err # OK THEN [script EXCEPT !.pc = "raised", !.err = f.err]
                  ELSE [script EXCEPT !.pc = "construct", !.dir_mode = d.ret,
                                      !.file_mode = f.ret]))
    /\ UNCHANGED <<smartfs_config, phase, storage, blank, smart_struct, last, nops, codec, twin>>

\* main: smartfs = SmartHigh(storage=bytearray(storage_size), formated=True, ...)
MainConstruct ==
    /\ script.pc = "construct"
    /\ Ended(MTDBlockLayer_init(smartfs_config), "init", <<>>, <<>>)
    /\ phase' = IF last'.err # OK THEN "failed" ELSE "ready"
    /\ script' = IF last'.err # OK THEN [script EXCEPT !.pc = "raised", !.err = last'.err]
                 ELSE [script EXCEPT !.pc = "exists"]
    /\ UNCHANGED <<smartfs_config, nops, codec, twin>>

\* main: if not args.base_dir.exists(); then walk_dir_find_all_dir starts with
\* the base directory in its queue
MainBaseDir ==
    /\ script.pc = "exists"
    /\ script' = IF ~script.args.base_dir.exists
                 THEN [script EXCEPT !.pc = "raised",
                                     !.err = "ValueError: Base dir not exists"]
                 ELSE [script EXCEPT !.pc = "walk", !.queue = <<Dot>>, !.result = <<>>]
    /\ UNCHANGED <<smartfs_config, phase, storage, blank, smart_struct, last, nops, codec, twin>>

\* walk_dir_find_all_dir that returns result, the base directory included
MainWalk_keeps_root ==
    /\ script.pc = "walk"
    /\ IF script.queue = <<>>
       THEN script' = [script EXCEPT !.pc = "mkdir", !.dirs = script.result]
       ELSE \E subdirs \in Orders(iterdir_dirs(script.args.base_dir, Head(script.queue))) :
                script' = [script EXCEPT !.result = Append(@, Head(script.queue)),
                                         !.queue = Tail(@) \o subdirs]
    /\ UNCHANGED <<smartfs_config, phase, storage, blank, smart_struct, last, nops, codec, twin>>

\* walk_dir_find_all_dir: one round of "while queue", and the return of
\* result[1:]
MainWalk ==
    /\ script.pc = "walk"
    /\ IF script.queue = <<>>
       THEN script' = [script EXCEPT !.pc = "mkdir", !.dirs = Tail(script.result)]
       ELSE \E subdirs \in Orders(iterdir_dirs(script.args.base_dir, Head(script.queue))) :
                script' = [script EXCEPT !.result = Append(@, Head(script.queue)),
                                         !.queue = Tail(@) \o subdirs]
    /\ UNCHANGED <<smartfs_config, phase, storage, blank, smart_struct, last, nops, codec, twin>>

\* main: one round of "for item in walk_dir_find_all_dir(...)", and the end of
\* the loop, where walk_dir_find_files takes over
MainMkdir ==
    /\ script.pc = "mkdir"
    /\ IF script.dirs = <<>>
       THEN /\ script' = [script EXCEPT !.pc = "files", !.files = script.args.base_dir.files]
            /\ UNCHANGED <<storage, blank, smart_struct, last>>
       ELSE \E utc \in Clock :
            /\ Ended(cmd_mkdir(Layer, smartfs_config, <<Slash>> \o Head(script.dirs),
                               script.dir_mode, utc),
                     "cmd_mkdir", <<Slash>> \o Head(script.dirs), <<>>)
            /\ script' = [script EXCEPT
                    !.dirs = Tail(@),
                    !.calls = Append(@, [op |-> "cmd_mkdir",
                                         path |-> <<Slash>> \o Head(script.dirs)]),
                    !.pc = IF last'.err # OK THEN "raised" ELSE "mkdir",
                    !.err = last'.err]
    /\ UNCHANGED <<smartfs_config, phase, nops, codec, twin>>

\* main: one round of "for item in walk_dir_find_files(...)", in any order of
\* the files, and the end of the loop
MainFile ==
    /\ script.pc = "files"
    /\ IF script.files = {}
       THEN /\ script' = [script EXCEPT !.pc = "write"]
            /\ UNCHANGED <<storage, blank, smart_struct, last>>
       ELSE \E item \in script.files, utc \in Clock :
            /\ Ended(cmd_file_create_write(Layer, smartfs_config, <<Slash>> \o item[1],
                                           item[2], script.file_mode, utc),
                     "cmd_file_create_write", <<Slash>> \o item[1], item[2])
            /\ script' = [script EXCEPT
                    !.files = @ \ {item},
                    !.calls = Append(@, [op |-> "cmd_file_create_write",
                                         path |-> <<Slash>> \o item[1]]),
                    !.pc = IF last'.err # OK THEN "raised" ELSE "files",
                    !.err = last'.err]
    /\ UNCHANGED <<smartfs_config, phase, nops, codec, twin>>

\* main: f.write(smartfs._mtd_block_layer._storage)
MainWrite ==
    /\ script.pc = "write"
    /\ script' = [script EXCEPT !.pc = "done", !.out = smartfs_config.device_size]
    /\ UNCHANGED <<smartfs_config, phase, storage, blank, smart_struct, last, nops, codec, twin>>

NextScript ==
    \/ CheckMode
    \/ MainModes \/ MainConstruct \/ MainBaseDir \/ MainWalk \/ MainMkdir \/ MainFile
    \/ MainWrite

SpecScript == InitScript /\ [][NextScript]_vars

(* ------------------------------------------------------------------ *)
(* base.py's codecs as a process: an object is packed with get_pack and *)
(* the bytes are read back with create_from_raw; bytes given as such    *)
(* are read only.                                                       *)
(* ------------------------------------------------------------------ *)
Bits == {0, 1}
\* Every SectorStatus of format version 1
Statuses ==
    [committed : Bits, released : Bits, crc_enable : Bits, sector_size : 0..7,
     format_version : {Version_v1}]
\* Logical and sequence numbers at the ends of the range, around the byte
\* boundary, and those of test_SectorHeader_create_from_raw
LogicalNumbers == {0, 16, 255, 256, 65535}
SequenceNumbers == {0, 255, 256, 2595, 65535}
CrcValues == {0, 165, 255}
\* The headers MTDBlockLayer builds: crc and status.crc_enable agree, and
\* crc_value keeps its default without CRC
SectorHeaders ==
    {h \in [logical_sector_number : LogicalNumbers, sequence_number : SequenceNumbers,
            status : Statuses, crc_value : CrcValues, crc : {"none", "crc8"}] :
        IF h.crc = "none" THEN h.status.crc_enable = 0 /\ h.crc_value = 0
        ELSE h.status.crc_enable = 1}
\* Chain headers of both types, next and used at the ends of the range, around
\* the byte boundary, and those of test_chain_sector and
\* test_ChainHeader_from_raw
ChainNumbers == {0, 2, 5, 52, 255, 256, 65535}
ChainHeaders ==
    [sector_type : {SectorType_directory, SectorType_file},
     next_sector : ChainNumbers, used : ChainNumbers]
\* Every combination of the four flags, with modes 0, 0o444, 0o666 and 0o777
EntryModes == {0, 292, 438, 511}
EntryFlags ==
    [empty : Bits, active : Bits, type : {SmartFSDirEntryType_file, SmartFSDirEntryType_dir},
     deleting : Bits, mode : EntryModes]
\* The flag bytes of test_SmartFSDirEntryFlags_from_raw
FlagBytes == {<<255, 127>>, <<255, 191>>, <<255, 223>>, <<255, 239>>, <<36, 255>>}
\* Logical sector numbers an entry can name: that of test_SmartFSEntryHeader,
\* the first one allocated, and those around 0x8000 and at the end of the range
FirstSectors == {10, SCTN_FIRST_ALLOC_SECTOR, 32767, 32768, 65533, 65534}
\* Whole seconds: the epoch, that of test_test_SmartFSEntryHeader_from_raw
\* (0x66C8DA6C), the last of 32 bits
Timestamps == {U32(0), <<26312, 55916>>, <<65535, 65535>>}
\* max_len_filename: the ends of [1, 64] and the default
NameLens == {1, 16, 64}
\* "check"
NameCheck == <<99, 104, 101, 99, 107>>
\* ASCII names of length <= n: none, one letter, "check", one that fills the
\* field, and one letter followed by NUL
Names(n) ==
    {name \in {<<>>, <<97>>, NameCheck, Rep(97, n), <<97, 0>>} : Len(name) <= n}
EntryHeaders ==
    [flags : EntryFlags, first_sector : FirstSectors, utc : Timestamps,
     name : UNION {Names(n) : n \in NameLens}]

NoObject == [none |-> TRUE]
NoBack == [err |-> "none"]
CodecObject(cls, obj, n) ==
    [pc |-> "object", cls |-> cls, obj |-> obj, n |-> n, raw |-> <<>>, back |-> NoBack]
CodecBytes(cls, raw) ==
    [pc |-> "packed", cls |-> cls, obj |-> NoObject, n |-> 0, raw |-> raw, back |-> NoBack]

\* What the process starts from: an object of one of the classes, or bytes
CodecInputs ==
    {CodecObject("SectorStatus", s, 0) : s \in Statuses}
    \cup {CodecObject("SectorHeader", h, 0) : h \in SectorHeaders}
    \cup {CodecBytes("SectorHeader", <<16, 0, 35, 10, 69>>)}
    \cup {CodecObject("ChainHeader", ch, 0) : ch \in ChainHeaders}
    \cup {CodecBytes("ChainHeader", <<1, 52, 0, 5, 0>>)}
    \cup {CodecObject("SmartFSDirEntryFlags", f, 0) : f \in EntryFlags}
    \cup {CodecBytes("SmartFSDirEntryFlags", b) : b \in FlagBytes}
    \cup {CodecObject("SmartFSEntryHeader", eh, n) : eh \in EntryHeaders, n \in NameLens}
    \cup {CodecBytes("SmartFSEntryHeader",
                      <<255, 255, 10, 0, 108, 218, 200, 102>> \o NameCheck \o Rep(0, 11))}

InitCodec ==
    /\ smartfs_config = CfgPlain
    /\ phase = "new"
    /\ storage = <<>>
    /\ blank = 0
    /\ smart_struct = _initialize(smartfs_config).ret
    /\ last = NoCall
    /\ nops = 0
    /\ script = NoScript
    /\ codec \in CodecInputs
    /\ twin = NoTwin

Packed(raw) == codec' = [codec EXCEPT !.pc = "packed", !.raw = raw]
ReadBack(back) == codec' = [codec EXCEPT !.pc = "read", !.back = back]
Raised(e) == codec' = [codec EXCEPT !.pc = "raised", !.back = [err |-> e]]
CodecOnly == UNCHANGED <<smartfs_config, phase, storage, blank, smart_struct, last, nops, script, twin>>

\* status.get_pack()
PackSectorStatus ==
    /\ codec.pc = "object" /\ codec.cls = "SectorStatus"
    /\ Packed(<<SectorStatus_get_pack(codec.obj)>>)
    /\ CodecOnly

\* SectorStatus.create_from_int(raw[0])
ReadSectorStatus ==
    /\ codec.pc = "packed" /\ codec.cls = "SectorStatus"
    /\ ReadBack(SectorStatus_create_from_int(codec.raw[1]))
    /\ CodecOnly

\* SectorHeaderV1(...).get_pack()
PackSectorHeader ==
    /\ codec.pc = "object" /\ codec.cls = "SectorHeader"
    /\ Packed(SectorHeaderV1_get_pack(codec.obj))
    /\ CodecOnly

\* SectorHeader.create_from_raw(raw)
ReadSectorHeader ==
    /\ codec.pc = "packed" /\ codec.cls = "SectorHeader"
    /\ ReadBack(SectorHeader_create_from_raw(codec.raw))
    /\ CodecOnly

\* ChainHeader(...).get_pack()
PackChainHeader ==
    /\ codec.pc = "object" /\ codec.cls = "ChainHeader"
    /\ Packed(ChainHeader_get_pack(codec.obj))
    /\ CodecOnly

\* ChainHeader.create_from_raw(raw)
ReadChainHeader ==
    /\ codec.pc = "packed" /\ codec.cls = "ChainHeader"
    /\ ReadBack(ChainHeader_create_from_raw(codec.raw))
    /\ CodecOnly

\* SmartFSDirEntryFlags(...).get_pack()
PackFlags ==
    /\ codec.pc = "object" /\ codec.cls = "SmartFSDirEntryFlags"
    /\ Packed(SmartFSDirEntryFlags_get_pack(codec.obj))
    /\ CodecOnly

\* SmartFSDirEntryFlags.create_from_raw(raw)
ReadFlags ==
    /\ codec.pc = "packed" /\ codec.cls = "SmartFSDirEntryFlags"
    /\ ReadBack([err |-> OK, ret |-> SmartFSDirEntryFlags_create_from_raw(codec.raw)])
    /\ CodecOnly

\* SmartFSEntryHeader(...).get_pack(max_name_len=n)
PackEntryHeader ==
    /\ codec.pc = "object" /\ codec.cls = "SmartFSEntryHeader"
    /\ Let(SmartFSEntryHeader_get_pack(codec.obj, codec.n), LAMBDA p :
            IF p.err # OK THEN Raised(p.err) ELSE Packed(p.ret))
    /\ CodecOnly

\* SmartFSEntryHeader.create_from_raw(raw)
ReadEntryHeader ==
    /\ codec.pc = "packed" /\ codec.cls = "SmartFSEntryHeader"
    /\ ReadBack(SmartFSEntryHeader_create_from_raw(codec.raw))
    /\ CodecOnly

NextCodec ==
    \/ PackSectorStatus \/ ReadSectorStatus
    \/ PackSectorHeader \/ ReadSectorHeader
    \/ PackChainHeader \/ ReadChainHeader
    \/ PackFlags \/ ReadFlags
    \/ PackEntryHeader \/ ReadEntryHeader

SpecCodec == InitCodec /\ [][NextCodec]_vars

(* ------------------------------------------------------------------ *)
(* Two builders of one configuration given the same calls, each reading *)
(* a clock of its own                                                   *)
(* ------------------------------------------------------------------ *)
\* The second builder's clock: the same second, or one that differs in each
\* of the four bytes
TwinClock == {Epoch, Epoch + 16909060}
TwinLayer == [twin EXCEPT !.err = OK]

InitTwin ==
    /\ smartfs_config \in Configs
    /\ phase = "new"
    /\ storage = <<>>
    /\ blank = 0
    /\ smart_struct = _initialize(smartfs_config).ret
    /\ last = NoCall
    /\ nops = 0
    /\ script = NoScript
    /\ codec = NoCodec
    /\ twin = [storage |-> <<>>, blank |-> 0, st |-> _initialize(smartfs_config).ret,
               err |-> OK]

TwinConstruct ==
    /\ phase = "new"
    /\ Ended(MTDBlockLayer_init(smartfs_config), "init", <<>>, <<>>)
    /\ twin' = MTDBlockLayer_init(smartfs_config)
    /\ phase' = IF last'.err # OK THEN "failed" ELSE "ready"
    /\ UNCHANGED <<smartfs_config, nops, script, codec>>

TwinMkdir ==
    /\ Idle
    /\ nops < MaxOps
    /\ \E path \in MkdirPaths(smartfs_config), utc \in {Epoch}, utc2 \in TwinClock :
        /\ Ended(cmd_mkdir(Layer, smartfs_config, path, DirMode, utc), "cmd_mkdir", path, <<>>)
        /\ twin' = cmd_mkdir(TwinLayer, smartfs_config, path, DirMode, utc2)
    /\ nops' = nops + 1
    /\ UNCHANGED <<smartfs_config, phase, script, codec>>

TwinFileCreateWrite ==
    /\ Idle
    /\ nops < MaxOps
    /\ \E path \in FilePaths(smartfs_config), utc \in {Epoch}, utc2 \in TwinClock :
       \E body \in Bodies(smartfs_config, path) :
        /\ Ended(cmd_file_create_write(Layer, smartfs_config, path, body, FileMode, utc),
                 "cmd_file_create_write", path, body)
        /\ twin' = cmd_file_create_write(TwinLayer, smartfs_config, path, body, FileMode, utc2)
    /\ nops' = nops + 1
    /\ UNCHANGED <<smartfs_config, phase, script, codec>>

TwinReturn ==
    /\ phase = "ready"
    /\ last.op \in {"cmd_mkdir", "cmd_file_create_write"}
    /\ last' = NoCall
    /\ twin' = TwinLayer
    /\ UNCHANGED <<smartfs_config, phase, storage, blank, smart_struct, nops, script, codec>>

NextTwin == TwinConstruct \/ TwinMkdir \/ TwinFileCreateWrite \/ TwinReturn

SpecTwin == InitTwin /\ [][NextTwin]_vars

(* ------------------------------------------------------------------ *)
(* _findfreephyssector called on a layer whose erase blocks are filled  *)
(* to any degree: in each block the lowest sectors are the used ones    *)
(* ------------------------------------------------------------------ *)
CfgFind == CfgPlain
\* The sectors used in each erase block
FindFills ==
    [0..(_initialize(CfgFind).ret.neraseblocks - 1)
        -> 0..(_initialize(CfgFind).ret.sectorsperblk)]
FindStruct(fill, lastallocblock) ==
    LET st == _initialize(CfgFind).ret
        used == {q \in (DOMAIN fill) \X (0..(st.sectorsperblk - 1)) : q[2] < fill[q[1]]}
    IN  [st EXCEPT !.free_sector_map = used,
                   !.freesectors = st.totalsectors - Cardinality(used),
                   !.lastallocblock = lastallocblock]

InitFind ==
    /\ smartfs_config = CfgFind
    /\ phase = "ready"
    /\ storage = <<>>
    /\ blank = 255
    /\ \E fill \in FindFills :
       \E lastallocblock \in DOMAIN fill :
        smart_struct = FindStruct(fill, lastallocblock)
    /\ last = NoCall
    /\ nops = 0
    /\ script = NoScript
    /\ codec = NoCodec
    /\ twin = NoTwin

FindFreePhysSector ==
    /\ phase = "ready"
    /\ last = NoCall
    /\ Let(_findfreephyssector(Layer), LAMBDA r :
            /\ smart_struct' = r.m.st
            /\ last' = [op |-> "_findfreephyssector", path |-> <<>>, body |-> <<>>,
                        err |-> r.m.err, before |-> smart_struct.lastallocblock,
                        ret |-> r.ret])
    /\ nops' = nops + 1
    /\ UNCHANGED <<smartfs_config, phase, storage, blank, script, codec, twin>>

NextFind == FindFreePhysSector

SpecFind == InitFind /\ [][NextFind]_vars

(* ------------------------------------------------------------------ *)
(* smart.py: __init__ step by step.  The constructor is followed        *)
(* through its calls (_initialize, _llformat, each round of             *)
(* _fs_media_write, the closing free_sector_map[0][0] = 0), over        *)
(* geometries that divide evenly and geometries that do not.            *)
(* ------------------------------------------------------------------ *)
\* 131072 sectors of 256 bytes
CfgOver == Config(33554432, 4194304, 0, "none", 16, 0)
\* 4 erase blocks of 1024 bytes and 512 bytes more
CfgRagged == Config(4608, 1024, 0, "none", 16, 0)
\* erase blocks of 1000 bytes: 3 sectors of 256 bytes and 232 bytes more
CfgOddBlock == Config(4000, 1000, 0, "none", 16, 0)
\* erase blocks smaller than a sector
CfgSmallBlock == Config(4096, 128, 0, "none", 16, 0)

Geometries == Configs \cup {CfgOver, CfgRagged, CfgOddBlock, CfgSmallBlock}

InitFormat ==
    /\ smartfs_config \in Geometries
    /\ phase = "new"
    /\ storage = <<>>
    /\ blank = 0
    /\ smart_struct = _initialize(smartfs_config).ret
    /\ last = NoCall
    /\ nops = 0
    /\ script = NoScript
    /\ codec = NoCodec
    /\ twin = NoTwin

\* self._initialize(); self._storage[:] = fill_value * device_size;
\* self._llformat()
FormatLow ==
    /\ phase = "new"
    /\ Ended(IF _initialize(smartfs_config).err # OK
             THEN [Layer EXCEPT !.err = _initialize(smartfs_config).err]
             ELSE _llformat([Layer EXCEPT !.blank = 255], smartfs_config),
             "init", <<>>, <<>>)
    /\ phase' = IF last'.err # OK THEN "failed" ELSE "formatting"
    /\ UNCHANGED <<smartfs_config, nops, script, codec, twin>>

\* one round of the loop of _fs_media_write: the root directory nops
FormatRoot ==
    /\ phase = "formatting"
    /\ nops < smartfs_config.number_root_dir + 1
    /\ Ended(fs_media_write_from(Layer, [smartfs_config EXCEPT !.number_root_dir = nops], nops),
             "init", <<>>, <<>>)
    /\ phase' = IF last'.err # OK THEN "failed" ELSE "formatting"
    /\ nops' = nops + 1
    /\ UNCHANGED <<smartfs_config, script, codec, twin>>

\* self._smart_struct.free_sector_map[0][0] = 0, and __init__ returns
FormatDone ==
    /\ phase = "formatting"
    /\ nops = smartfs_config.number_root_dir + 1
    /\ Ended([Layer EXCEPT !.st.free_sector_map = @ \cup {<<0, 0>>}], "init", <<>>, <<>>)
    /\ phase' = "ready"
    /\ nops' = 0
    /\ UNCHANGED <<smartfs_config, script, codec, twin>>

NextFormat == FormatLow \/ FormatRoot \/ FormatDone \/ AllocSector

\* The constructor step by step, then direct allocation
SpecFormat == InitFormat /\ [][NextFormat]_vars

(* ------------------------------------------------------------------ *)
(* Reading the image: the sectors, chains and entries the properties    *)
(* are stated over                                                      *)
(* ------------------------------------------------------------------ *)
\* The bytes of the physical sector phy
Image(phy) == SectorBytes(Layer, smartfs_config, phy)

\* The logical sectors l with smap[l] # 0xFFFF
Mapped == {l \in DOMAIN smart_struct.smap : smart_struct.smap[l] # PS_NOT_ALLOCATED}

\* The CH stored in the mapped logical sector l, field by field
CHOf(l) ==
    Let(Image(smart_struct.smap[l]), LAMBDA s :
        [sector_type |-> s[6],
         next_sector |-> s[7] + 256 * s[8],
         used |-> s[9] + 256 * s[10]])

\* The chain that starts at l: CH.next is followed while it names a mapped
\* sector not yet visited.
RECURSIVE ChainFrom(_, _)
ChainFrom(l, visited) ==
    IF l \notin Mapped \/ (\E i \in 1..Len(visited) : visited[i] = l) THEN visited
    ELSE ChainFrom(CHOf(l).next_sector, Append(visited, l))

ChainOf(l) == ChainFrom(l, <<>>)

EntrySize == SmartFSEntryHeader_get_size(smartfs_config.max_len_filename)
SlotsPerSector == (_sector_size_byte(smartfs_config) - 5 - ChainHeader_get_size) \div EntrySize

\* The EH stored in slot k (from 0) of the mapped logical sector l
EHAt(l, k) ==
    SmartFSEntryHeader_create_from_raw(
        SubSeq(Image(smart_struct.smap[l]),
               5 + ChainHeader_get_size + k * EntrySize + 1,
               5 + ChainHeader_get_size + (k + 1) * EntrySize)).ret

\* Slot k of sector l holds an entry (first_sector is not the erased 0xFFFF).
Occupied(l, k) == EHAt(l, k).first_sector # 0 - 1

\* The slots <<sector, k>> of the directory whose chain starts at l that hold an
\* entry, in the order of the chain.
DirEntries(l) ==
    Let(ChainOf(l), LAMBDA c :
        SelectSeq([i \in 1..(Len(c) * SlotsPerSector) |->
                      <<c[((i - 1) \div SlotsPerSector) + 1], (i - 1) % SlotsPerSector>>],
                  LAMBDA p : Occupied(p[1], p[2])))

\* Every slot of the last sector of the chain from l holds an entry.
LastSectorFull(l) ==
    Let(ChainOf(l), LAMBDA c :
        \A k \in 0..(SlotsPerSector - 1) : Occupied(c[Len(c)], k))

\* The root directory's chain, its last sector, that sector's CH and the EH in
\* its first slot
RootChain == ChainOf(SCTN_ROOT_DIR_SECTOR)
RootLast == RootChain[Len(RootChain)]
RootLastCH == CHOf(RootLast)
RootLastFirstEntry == EHAt(RootLast, 0)

\* The directory part and the final name of an absolute path
ParentOf(path) == rsplit_slash(path)[1]
NameOf(path) == rsplit_slash(path)[2]

\* The first sector of the directory ParentOf(path): the root's, or the one the
\* root's entry of that name and of type directory points to; None when the
\* root holds no such entry.
ParentSector(path) ==
    IF ParentOf(path) = <<>> THEN SCTN_ROOT_DIR_SECTOR
    ELSE Let({EHAt(p[1], p[2]).first_sector :
                p \in {q \in {DirEntries(SCTN_ROOT_DIR_SECTOR)[i] :
                                i \in 1..Len(DirEntries(SCTN_ROOT_DIR_SECTOR))} :
                         /\ EHAt(q[1], q[2]).flags.type = SmartFSDirEntryType_dir
                         /\ <<Slash>> \o EHAt(q[1], q[2]).name = ParentOf(path)}},
             LAMBDA firsts : IF firsts = {} THEN None ELSE CHOOSE f \in firsts : TRUE)

\* The entry written last into the directory ParentOf(path)
NewEntry(path) ==
    Let(DirEntries(ParentSector(path)), LAMBDA es :
        EHAt(es[Len(es)][1], es[Len(es)][2]))

\* The occupied slots of the root directory, and the bytes of slot k of the
\* mapped logical sector l
RootEntries == DirEntries(SCTN_ROOT_DIR_SECTOR)
SlotBytes(l, k) ==
    SubSeq(Image(smart_struct.smap[l]),
           5 + ChainHeader_get_size + k * EntrySize + 1,
           5 + ChainHeader_get_size + (k + 1) * EntrySize)

\* The logical sectors the root's entries own: the chain of each file and the
\* first sector of each directory
OwnedSectors ==
    UNION {Let(EHAt(RootEntries[i][1], RootEntries[i][2]), LAMBDA eh :
                IF eh.flags.type = SmartFSDirEntryType_file
                THEN {ChainOf(eh.first_sector)[j] : j \in 1..Len(ChainOf(eh.first_sector))}
                ELSE {eh.first_sector} \cap Mapped) : i \in 1..Len(RootEntries)}

\* The physical place and the bytes of the mapped logical sector l
SectorOf(l) == <<smart_struct.smap[l], Image(smart_struct.smap[l])>>

\* The errors of an allocation for which the image has no room
OutOfSpace ==
    {"ValueError: Not enough free sectors", "ValueError: No available logical sector",
     "ValueError: No available physical sector"}

\* The bytes of the body a file sector of the given payload holds as the i-th
\* of its chain
BytesIn(len, payload, i) ==
    IF len <= (i - 1) * payload THEN 0
    ELSE IF len - (i - 1) * payload > payload THEN payload
    ELSE len - (i - 1) * payload

\* payload[0:used] of the sectors of the chain c, one after the other
RECURSIVE ChainData(_)
ChainData(c) ==
    IF c = <<>> THEN <<>>
    ELSE Let(IF CHOf(Head(c)).used > Payload(smartfs_config)
             THEN Payload(smartfs_config) ELSE CHOf(Head(c)).used, LAMBDA used :
         SubSeq(Image(smart_struct.smap[Head(c)]), 5 + ChainHeader_get_size + 1,
                5 + ChainHeader_get_size + used) \o ChainData(Tail(c)))

(* ------------------------------------------------------------------ *)
(* The properties                                                       *)
(* ------------------------------------------------------------------ *)
\* C1: once the image is constructed, and after every call, bytes [5..9) of
\* the image are "SMRT", followed by the version, max_len_filename and
\* number_root_dir, and physical sector 0 carries the SH of logical sector 0.
C1_FormatSectorIntact ==
    phase = "ready" =>
        Let(Image(0), LAMBDA s :
            /\ SubSeq(s, 6, 9) = Signature
            /\ s[10] = Version_v1
            /\ s[11] = smartfs_config.max_len_filename
            /\ s[12] = smartfs_config.number_root_dir
            /\ s[1] + 256 * s[2] = 0)

\* C2: in every state, free_sectors plus the number of mapped logical sectors
\* is total_sectors.
C2_FreePlusMappedIsTotal ==
    smart_struct.freesectors + Cardinality(Mapped) = smart_struct.totalsectors

\* C3 as stated: after construction and after every call, smap[0] = 0 and
\* smap[3] = 3.
C3_RootAtPhysicalThree ==
    phase = "ready" => smap_at(smart_struct, 0) = 0 /\ smap_at(smart_struct, 3) = 3

\* C3 amended: after construction and after every call, smap[0] = 0 and
\* smap[3] is the first physical sector of erase block 1, which carries the SH
\* of logical sector 3.
C3_RootAtSecondBlock ==
    phase = "ready" =>
        /\ smap_at(smart_struct, 0) = 0
        /\ smap_at(smart_struct, SCTN_ROOT_DIR_SECTOR) = smart_struct.sectorsperblk
        /\ Image(smart_struct.sectorsperblk)[1] = SCTN_ROOT_DIR_SECTOR
        /\ Image(smart_struct.sectorsperblk)[2] = 0

C3_Witness ==
    /\ phase = "ready"
    /\ last.op = "cmd_file_create_write" /\ last.err = OK
    /\ Cardinality(Mapped) >= 5
    /\ smap_at(smart_struct, SCTN_ROOT_DIR_SECTOR) = 8

\* C4: with crc8, in every state every mapped sector's SH byte 3 is the CRC-8
\* over its data region, then SH bytes 0..2, then the status byte.
C4_CrcIsFresh ==
    smartfs_config.crc = "crc8" =>
        \A l \in Mapped :
            Let(Image(smart_struct.smap[l]), LAMBDA s :
                checksum(SubSeq(s, 6, Len(s)) \o SubSeq(s, 1, 3) \o <<s[5]>>) = s[4])

C4_Witness ==
    /\ smartfs_config.crc = "crc8"
    /\ last.op = "cmd_file_create_write" /\ last.err = OK
    /\ Len(last.body) > Payload(smartfs_config)
    /\ Len(ChainOf(NewEntry(last.path).first_sector)) >= 2

\* C5: after cmd_mkdir(p) for an absolute p whose parent directory exists
\* (and with room in the image), the call has succeeded and _finddirentry(p)
\* returns the entry: its name is the last component of p, its first_sector
\* the directory's own sector, its dir_sector and dir_offset the place of its
\* EH.
C5_MkdirThenFind ==
    (/\ last.op = "cmd_mkdir"
     /\ startswith_slash(last.path)
     /\ Len(NameOf(last.path)) \in 1..smartfs_config.max_len_filename
     /\ ParentSector(last.path) # None
     /\ last.err \notin OutOfSpace)
    => /\ last.err = OK
       /\ Let(_finddirentry(Layer, smartfs_config, last.path), LAMBDA e :
            /\ e.err = OK
            /\ e.ret.name = NameOf(last.path)
            /\ e.ret.first_sector \in Mapped
            /\ CHOf(e.ret.first_sector).sector_type = SectorType_directory
            /\ e.ret.dir_sector \in Mapped
            /\ EHAt(e.ret.dir_sector, e.ret.dir_offset \div EntrySize).name
                    = NameOf(last.path)
            /\ EHAt(e.ret.dir_sector, e.ret.dir_offset \div EntrySize).first_sector
                    = e.ret.first_sector)

\* C6: a cmd_mkdir under "/" made when the last sector of the root's chain is
\* full (and with room in the image) succeeds with a continuation sector: the
\* chain is one sector longer, the sector that was last links to the new one,
\* the new one's CH is (directory, 0xFFFF, 0xFFFF) and its first slot holds
\* the new entry.
C6_ContinuationSector ==
    [][(/\ Idle
        /\ last'.op = "cmd_mkdir"
        /\ startswith_slash(last'.path)
        /\ ParentOf(last'.path) = <<>>
        /\ Len(NameOf(last'.path)) \in 1..smartfs_config.max_len_filename
        /\ last'.err \notin OutOfSpace
        /\ LastSectorFull(SCTN_ROOT_DIR_SECTOR))
       => (/\ last'.err = OK
           /\ Len(RootChain') = Len(RootChain) + 1
           /\ SubSeq(RootChain', 1, Len(RootChain)) = RootChain
           /\ RootLast' \notin Mapped
           /\ RootLastCH' = [sector_type |-> SectorType_directory,
                             next_sector |-> 65535, used |-> 65535]
           /\ RootLastFirstEntry'.name = NameOf(last'.path)
           /\ RootLastFirstEntry'.flags.type = SmartFSDirEntryType_dir)]_vars

\* C7: get_next_sector_number returns None exactly for a CH whose next is
\* 0xFFFF, and _walk_sectors_in_entry over the root's chain yields the sectors
\* of the chain in order and ends without an error.
C7_WalkEndsAtChainEnd ==
    phase = "ready" =>
        /\ \A l \in Mapped \ {0} :
            (get_next_sector_number(Layer, smartfs_config,
                    [phy |-> smart_struct.smap[l], header |-> <<>>]).ret = None)
                <=> (CHOf(l).next_sector = 65535)
        /\ Let(_walk_sectors_in_entry(Layer, smartfs_config,
                    _create_smart_entry_root(Layer, smartfs_config).ret), LAMBDA w :
                /\ w.err = OK
                /\ w.ret = ChainOf(SCTN_ROOT_DIR_SECTOR))

\* C8: after a successful cmd_file_create_write(path, body) with L = len(body)
\* >= 1 and P = sector_size - 5 - 5, the chain from the new entry's
\* first_sector has ceil(L / P) sectors, each of type file with used the
\* bytes of the body it holds (P but for the last), the last one's next is
\* 0xFFFF, and payload[0:used] along the chain is the body.
C8_FileChainHoldsBody ==
    (last.op = "cmd_file_create_write" /\ last.err = OK /\ Len(last.body) >= 1) =>
        Let(ChainOf(NewEntry(last.path).first_sector), LAMBDA c :
            /\ NewEntry(last.path).name = os_path_split(last.path)[2]
            /\ NewEntry(last.path).flags.type = SmartFSDirEntryType_file
            /\ Len(c) >= 1
            /\ (Len(c) - 1) * Payload(smartfs_config) < Len(last.body)
            /\ Len(last.body) <= Len(c) * Payload(smartfs_config)
            /\ \A i \in 1..Len(c) :
                /\ CHOf(c[i]).sector_type = SectorType_file
                /\ CHOf(c[i]).used = BytesIn(Len(last.body), Payload(smartfs_config), i)
                /\ i < Len(c) => CHOf(c[i]).next_sector = c[i + 1]
            /\ CHOf(c[Len(c)]).next_sector = 65535
            /\ ChainData(c) = last.body)

C8_Witness ==
    /\ last.op = "cmd_file_create_write" /\ last.err = OK
    /\ Len(last.body) > 2 * Payload(smartfs_config)
    /\ Len(ChainOf(NewEntry(last.path).first_sector)) = 3

\* C9: after a successful cmd_file_create_write, every sector of the file's
\* chain has CH.used equal to the bytes of the body it holds; the first sector
\* of a file with an empty body has used = 0.
C9_UsedIsBytesStored ==
    (last.op = "cmd_file_create_write" /\ last.err = OK) =>
        Let(ChainOf(NewEntry(last.path).first_sector), LAMBDA c :
            /\ Len(c) >= 1
            /\ \A i \in 1..Len(c) :
                CHOf(c[i]).used = BytesIn(Len(last.body), Payload(smartfs_config), i))

\* C10: a cmd_mkdir or cmd_file_create_write for an absolute path whose parent
\* directory exists and whose final name is longer than max_len_filename
\* fails with "Filename too long" and changes neither the image nor smap,
\* free_sectors, free_sector_map or lastallocblock.
C10_LongNameRejected ==
    [][(/\ Idle
        /\ last'.op \in {"cmd_mkdir", "cmd_file_create_write"}
        /\ startswith_slash(last'.path)
        /\ Len(NameOf(last'.path)) > smartfs_config.max_len_filename
        /\ ParentSector(last'.path) # None)
       => (/\ last'.err = "ValueError: Filename too long"
           /\ storage' = storage
           /\ blank' = blank
           /\ smart_struct' = smart_struct)]_vars


\* C11: a call of _allocsector fails with "Not enough free sectors" exactly
\* when free_sectors < sectors_per_eb + 4 at the call; such a call changes
\* neither the image nor smap, free_sectors, free_sector_map or lastallocblock;
\* and on a constructed layer free_sectors is never below sectors_per_eb + 3.
C11_FreeSectorFloor ==
    [][/\ (last'.op = "_allocsector" /\ nops' # nops) =>
            /\ (last'.err = "ValueError: Not enough free sectors")
                    <=> (smart_struct.freesectors < smart_struct.sectorsperblk + 4)
            /\ (last'.err = "ValueError: Not enough free sectors") =>
                    (storage' = storage /\ blank' = blank /\ smart_struct' = smart_struct)
       /\ phase' = "ready" =>
            smart_struct'.freesectors >= smart_struct'.sectorsperblk + 3]_vars

C11_Witness ==
    /\ phase = "ready"
    /\ last.op = "_allocsector"
    /\ last.err = "ValueError: Not enough free sectors"
    /\ smart_struct.freesectors = smart_struct.sectorsperblk + 3
    /\ Cardinality(Mapped) >= 5

\* C12: a cmd_mkdir or cmd_file_create_write, ended well or with an error,
\* leaves what earlier calls wrote: the root's entries keep their slots and
\* the bytes of their EH, every sector of an earlier file's chain and every
\* earlier directory's sector stays mapped to the same physical sector with
\* the same bytes, and the earlier entries are still found along the root's
\* chain, in the same order.
C12_EarlierWorkIntact ==
    [][(Idle /\ last'.op \in {"cmd_mkdir", "cmd_file_create_write"}) =>
            /\ Len(RootEntries') >= Len(RootEntries)
            /\ SubSeq(RootEntries', 1, Len(RootEntries)) = RootEntries
            /\ \A p \in {RootEntries[i] : i \in 1..Len(RootEntries)} :
                    SlotBytes(p[1], p[2])' = SlotBytes(p[1], p[2])
            /\ \A l \in OwnedSectors :
                    /\ l \in Mapped'
                    /\ SectorOf(l)' = SectorOf(l)]_vars

\* A second file's body runs out of sectors part-way, after a first file was
\* written whole.
C12_Witness ==
    /\ nops = 2
    /\ last.op = "cmd_file_create_write"
    /\ last.err = "ValueError: Not enough free sectors"
    /\ Len(RootEntries) = 2
    /\ EHAt(RootEntries[1][1], RootEntries[1][2]).flags.type = SmartFSDirEntryType_file
    /\ Len(ChainOf(EHAt(RootEntries[1][1], RootEntries[1][2]).first_sector)) >= 2
    /\ Len(ChainOf(EHAt(RootEntries[2][1], RootEntries[2][2]).first_sector)) >= 1

\* The root's entries that carry the name of the last call's path, and whether
\* the chain of each holds the last call's body
NamedAsLast ==
    {i \in 1..Len(RootEntries) :
        EHAt(RootEntries[i][1], RootEntries[i][2]).name = NameOf(last.path)}
NamedAsLastHoldBody ==
    \A i \in NamedAsLast :
        ChainData(ChainOf(EHAt(RootEntries[i][1], RootEntries[i][2]).first_sector))
            = last.body

\* C13: a successful cmd_file_create_write(path, body) for a path under "/"
\* that names a file already leaves exactly one entry of that name in the root
\* directory, and the chain that entry points to holds the new body.
C13_OverwriteKeepsOneEntry ==
    [][(/\ Idle
        /\ last'.op = "cmd_file_create_write" /\ last'.err = OK
        /\ ParentOf(last'.path) = <<>>
        /\ Len(NameOf(last'.path)) >= 1
        /\ Len(last'.body) >= 1
        /\ \E i \in 1..Len(RootEntries) :
            /\ EHAt(RootEntries[i][1], RootEntries[i][2]).name = NameOf(last'.path)
            /\ EHAt(RootEntries[i][1], RootEntries[i][2]).flags.type
                    = SmartFSDirEntryType_file)
       => (Cardinality(NamedAsLast') = 1 /\ NamedAsLastHoldBody')]_vars

\* C14: check_mode accepts a string exactly when it has three characters, each
\* of "0".."7", and raises ValueError for every other string.
C14_ModeIsThreeOctalDigits ==
    script.pc # "none" /\ script.checked # NoCheck =>
        ((script.checked.err = OK)
            <=> (/\ Len(script.checked.mode) = 3
                 /\ \A i \in 1..Len(script.checked.mode) :
                        script.checked.mode[i] \in 48..55))

\* C15: in a run of main no cmd_mkdir is issued after a
\* cmd_file_create_write; walk_dir_find_all_dir lists the directories of the
\* tree, each once, the base directory left out, every directory after its
\* parent; so each cmd_mkdir is for a directory of the tree, is issued once,
\* and comes after the cmd_mkdir of the parent directory, and all of them are
\* issued before the files are written.
C15_DirsFirstParentsFirst ==
    script.pc # "none" =>
        LET calls == script.calls
            tree == script.args.base_dir
            result == script.result
            mkdir(d) == [op |-> "cmd_mkdir", path |-> <<Slash>> \o d]
        IN  /\ \A i, j \in 1..Len(calls) :
                (i < j /\ calls[i].op = "cmd_file_create_write")
                    => calls[j].op # "cmd_mkdir"
            /\ \A j \in 1..Len(calls) :
                calls[j].op = "cmd_mkdir" =>
                    /\ Tail(calls[j].path) \in tree.dirs
                    /\ \A i \in 1..Len(calls) : calls[i] = calls[j] => i = j
                    /\ HostParent(Tail(calls[j].path)) # Dot =>
                        \E i \in 1..(j - 1) :
                            calls[i] = mkdir(HostParent(Tail(calls[j].path)))
            /\ script.pc \in {"files", "write", "done"} =>
                \A d \in tree.dirs : \E i \in 1..Len(calls) : calls[i] = mkdir(d)
            /\ script.pc \in {"mkdir", "files", "write", "done"} =>
                /\ result[1] = Dot
                /\ Len(result) = Cardinality(tree.dirs) + 1
                /\ {result[i] : i \in 2..Len(result)} = tree.dirs
                /\ \A i \in 2..Len(result) :
                    \E k \in 1..(i - 1) : result[k] = HostParent(result[i])

\* main has made two directories and then written a file, and has ended.
C15_Witness ==
    /\ script.pc = "done"
    /\ Len(script.calls) = 3
    /\ script.calls[1].op = "cmd_mkdir"
    /\ script.calls[2].op = "cmd_mkdir"
    /\ script.calls[3].op = "cmd_file_create_write"

\* C16: main run on the tree of the tests (file1.txt, file2.txt,
\* dir1/file3.txt, dir1/dir2/file4.txt) with valid modes and a storage size of
\* 1048576 bytes ends without raising and writes an image of 1048576 bytes.
C16_MainBuildsTestTree ==
    (/\ script.pc \in {"done", "raised"}
     /\ script.args.base_dir = TreeTest
     /\ ModeBits_create_from_str(script.args.dir_mode).err = OK
     /\ ModeBits_create_from_str(script.args.file_mode).err = OK)
    => (/\ script.pc = "done"
        /\ script.err = OK
        /\ script.out = 1048576)

\* C17 as stated: after main's build of an empty tree with a storage size of
\* 1048576, erase blocks of 4096 and sectors of 1024 bytes, crc none and no
\* extra roots, the SH status byte of sector 0 is 0x45.
C17_StatusByteIs45 ==
    (smartfs_config = CfgMain /\ phase = "ready" /\ script.pc # "none"
        /\ script.calls = <<>>)
    => Image(0)[5] = 69

\* C17 amended: in that build the SH status byte of sector 0 is 0x49: not
\* committed 0, not released 1, crc 0, the size code 2 of 1024-byte sectors in
\* bits 4-2, version 1.
C17_StatusByteIs49 ==
    (smartfs_config = CfgMain /\ phase = "ready" /\ script.pc # "none"
        /\ script.calls = <<>>)
    => Image(0)[5] = 73

\* main has built the image of an empty tree and written it.
C17_Witness ==
    /\ smartfs_config = CfgMain /\ phase = "ready"
    /\ script.pc = "done"
    /\ script.args.base_dir = TreeEmpty
    /\ script.calls = <<>>
    /\ script.out = 1048576
    /\ SubSeq(Image(0), 6, 9) = Signature

\* The physical sectors of the root directories: those of the logical sectors
\* 3 .. 3 + number_root_dir
RootSectors ==
    {smap_at(smart_struct, SCTN_ROOT_DIR_SECTOR + i) :
        i \in 0..smartfs_config.number_root_dir}

\* C18 as stated: after formatted construction, before any call, the data
\* region of every sector after sector 0 holds 0xFF only.
C18_DataRegionsAllFF ==
    (phase = "ready" /\ last.op = "init") =>
        /\ blank = 255
        /\ \A p \in (DOMAIN storage) \ {0} :
            \A i \in 6..Len(storage[p]) : storage[p][i] = 255

\* C18 amended: after formatted construction, before any call, the data
\* region of every sector after sector 0 holds 0xFF only, but for the first
\* byte of the data region of each root directory sector, which is the
\* sector type 0x01 of its CH.
C18_DataRegionsFFButRootType ==
    (phase = "ready" /\ last.op = "init") =>
        /\ blank = 255
        /\ \A p \in (DOMAIN storage) \ {0} :
            /\ \A i \in 7..Len(storage[p]) : storage[p][i] = 255
            /\ storage[p][6] = IF p \in RootSectors THEN SectorType_directory ELSE 255

\* The image has just been constructed with two root directories.
C18_Witness ==
    /\ phase = "ready" /\ last.op = "init"
    /\ smartfs_config.number_root_dir = 1
    /\ Cardinality(RootSectors \ {0}) = 2
    /\ RootSectors \subseteq DOMAIN storage

\* C19: after formatted construction with number_root_dir = n, before any
\* call, every logical sector 3 + i with i in 0..n is mapped, to a physical
\* sector no other root has; that sector's SH carries the logical number
\* 3 + i, and its data region is the CH (directory, 0xFFFF, 0xFFFF) and then
\* 0xFF only.
C19_RootSectorsWritten ==
    (phase = "ready" /\ last.op = "init") =>
        /\ \A i \in 0..smartfs_config.number_root_dir :
            /\ (SCTN_ROOT_DIR_SECTOR + i) \in Mapped
            /\ Let(Image(smap_at(smart_struct, SCTN_ROOT_DIR_SECTOR + i)), LAMBDA s :
                /\ s[1] + 256 * s[2] = SCTN_ROOT_DIR_SECTOR + i
                /\ SubSeq(s, 6, 10) = <<SectorType_directory, 255, 255, 255, 255>>
                /\ \A k \in 11..Len(s) : s[k] = 255)
        /\ \A i, j \in 0..smartfs_config.number_root_dir :
            smap_at(smart_struct, SCTN_ROOT_DIR_SECTOR + i)
                    = smap_at(smart_struct, SCTN_ROOT_DIR_SECTOR + j)
                => i = j

\* The image has just been constructed with four root directories.
C19_Witness ==
    /\ phase = "ready" /\ last.op = "init"
    /\ smartfs_config.number_root_dir = 3
    /\ Cardinality(RootSectors) = 4
    /\ {3, 4, 5, 6} \subseteq Mapped

\* C20: cmd_mkdir and cmd_file_create_write called with a path that does not
\* start with "/" fail with "Path must be absolute", cmd_mkdir("/") fails with
\* "Can't create root directory", and such a call changes neither the image
\* nor smap, free_sectors, free_sector_map or lastallocblock; on every built
\* image _finddirentry rejects a path that does not start with "/" in the same
\* way, and _finddirentry("/") is the entry with first_sector = dir_sector = 3,
\* dir_offset = 0 and name "/".
C20_RelativePaths == {<<>>, <<97>>, <<102>>, <<97, Slash, 98>>}
C20_PathsChecked ==
    /\ [](phase = "ready" =>
            /\ \A p \in C20_RelativePaths :
                 _finddirentry(Layer, smartfs_config, p)
                   = [err |-> "ValueError: Path must be absolute", ret |-> NoEntry]
            /\ _finddirentry(Layer, smartfs_config, <<Slash>>)
                 = [err |-> OK,
                    ret |-> [first_sector |-> 3, dir_sector |-> 3,
                             dir_offset |-> 0, name |-> <<Slash>>]])
    /\ [][(/\ Idle
           /\ last'.op \in {"cmd_mkdir", "cmd_file_create_write"}
           /\ (last'.path \in C20_RelativePaths
               \/ (last'.op = "cmd_mkdir" /\ last'.path = <<Slash>>)))
          => (/\ last'.err = (IF last'.path = <<Slash>>
                              THEN "ValueError: Can't create root directory"
                              ELSE "ValueError: Path must be absolute")
              /\ storage' = storage
              /\ blank' = blank
              /\ smart_struct' = smart_struct)]_vars
\* cmd_mkdir("a") is rejected on an image that already holds an entry
C20_Witness ==
    /\ phase = "ready"
    /\ nops = 2
    /\ last.op = "cmd_mkdir"
    /\ last.path = <<97>>
    /\ last.err = "ValueError: Path must be absolute"
    /\ Len(RootEntries) > 0
    /\ _finddirentry(Layer, smartfs_config, <<Slash>>).ret.first_sector = 3

\* C21: on every built image _finddirentry of an absolute path whose single
\* component is the name of no entry of the root directory fails with
\* "Directory not found"; and a cmd_mkdir or cmd_file_create_write whose parent
\* directory is missing fails with that error and changes neither the image
\* nor smap, free_sectors, free_sector_map or lastallocblock.
C21_MissingName == <<Slash, 122>>
C21_NotFoundReported ==
    /\ [](phase = "ready" =>
            _finddirentry(Layer, smartfs_config, C21_MissingName).err
                = "ValueError: Directory not found")
    /\ [][(/\ Idle
           /\ last'.op \in {"cmd_mkdir", "cmd_file_create_write"}
           /\ startswith_slash(last'.path)
           /\ ParentOf(last'.path) \notin {<<>>, <<Slash>>}
           /\ ParentSector(last'.path) = None)
          => (/\ last'.err = "ValueError: Directory not found"
              /\ storage' = storage
              /\ blank' = blank
              /\ smart_struct' = smart_struct)]_vars

\* C22: SectorStatus.create_from_int(get_pack(status)) is status for every
\* status of version 1; SectorHeader.create_from_raw(get_pack(sh)) has sh's
\* logical number, sequence number and status and is classified "none" when sh
\* has no CRC, and has sh's logical number, the low byte of its sequence
\* number, its CRC byte and status and is classified "crc8" when sh has one;
\* the header (0x0010, 0x0A23, b512, not released, no CRC) packs to
\* 10 00 23 0A 45 and those bytes read back as it.
C22_TestHeader ==
    [logical_sector_number |-> 16, sequence_number |-> 2595,
     status |-> [committed |-> 0, released |-> 1, crc_enable |-> 0, sector_size |-> 1,
                 format_version |-> Version_v1],
     crc_value |-> 0, crc |-> "none"]
C22_SectorHeaderRoundTrip ==
    /\ (codec.pc = "read" /\ codec.cls = "SectorStatus")
        => codec.back = [err |-> OK, ret |-> codec.obj]
    /\ (codec.pc = "read" /\ codec.cls = "SectorHeader" /\ codec.obj # NoObject)
        => /\ codec.back.err = OK
           /\ codec.back.ret.logical_sector_number = codec.obj.logical_sector_number
           /\ codec.back.ret.status = codec.obj.status
           /\ codec.back.ret.crc = codec.obj.crc
           /\ codec.back.ret.crc_value = codec.obj.crc_value
           /\ codec.back.ret.sequence_number
                = IF codec.obj.crc = "none" THEN codec.obj.sequence_number
                  ELSE codec.obj.sequence_number % 256
    /\ (codec.pc = "packed" /\ codec.cls = "SectorHeader" /\ codec.obj = C22_TestHeader)
        => codec.raw = <<16, 0, 35, 10, 69>>
    /\ (codec.pc = "read" /\ codec.cls = "SectorHeader" /\ codec.obj = NoObject)
        => codec.back = [err |-> OK, ret |-> C22_TestHeader]
\* a header with CRC and a two-byte sequence number was packed and read back
C22_Witness ==
    /\ codec.pc = "read"
    /\ codec.cls = "SectorHeader"
    /\ codec.obj # NoObject
    /\ codec.obj.crc = "crc8"
    /\ codec.obj.sequence_number = 2595
    /\ codec.obj.crc_value = 165
    /\ codec.obj.logical_sector_number = 65535
    /\ codec.back.ret.sequence_number = 35
    /\ codec.back.ret.crc_value = 165

\* C23: ChainHeader.create_from_raw(get_pack(ch)) is ch for either type and
\* next and used in [0, 0xFFFF]; the packed form is 5 bytes: the type, next as
\* u16 little-endian, used as u16 little-endian; (file, 0xFFFF, 2) packs to
\* 02 FF FF 02 00 and 01 34 00 05 00 reads as (directory, 0x0034, 5).
C23_ChainHeaderRoundTrip ==
    /\ (codec.pc = "read" /\ codec.cls = "ChainHeader" /\ codec.obj # NoObject)
        => codec.back = [err |-> OK, ret |-> codec.obj]
    /\ (codec.pc = "packed" /\ codec.cls = "ChainHeader" /\ codec.obj # NoObject)
        => codec.raw = <<codec.obj.sector_type,
                         codec.obj.next_sector % 256, codec.obj.next_sector \div 256,
                         codec.obj.used % 256, codec.obj.used \div 256>>
    /\ (/\ codec.pc = "packed" /\ codec.cls = "ChainHeader"
        /\ codec.obj = [sector_type |-> SectorType_file, next_sector |-> 65535, used |-> 2])
        => codec.raw = <<2, 255, 255, 2, 0>>
    /\ (codec.pc = "read" /\ codec.cls = "ChainHeader" /\ codec.obj = NoObject)
        => codec.back = [err |-> OK,
                         ret |-> [sector_type |-> SectorType_directory,
                                  next_sector |-> 52, used |-> 5]]
\* (file, 0x0100, 0xFFFF) was packed and read back
C23_Witness ==
    /\ codec.pc = "read"
    /\ codec.cls = "ChainHeader"
    /\ codec.obj = [sector_type |-> SectorType_file, next_sector |-> 256, used |-> 65535]
    /\ codec.raw = <<2, 0, 1, 255, 255>>
    /\ codec.back.ret.used = 65535

\* C24: for max_len_filename n in [1, 64], an ASCII name of length <= n, any
\* flags with a 9-bit mode, any first_sector and any whole-second timestamp,
\* get_pack(eh, n) returns 8 + n bytes and SmartFSEntryHeader.create_from_raw
\* of them is eh.
C24_EntryHeaderRoundTrip ==
    (/\ codec.cls = "SmartFSEntryHeader"
     /\ codec.obj # NoObject
     /\ codec.pc # "object"
     /\ Len(codec.obj.name) <= codec.n)
    => /\ codec.pc # "raised"
       /\ Len(codec.raw) = 8 + codec.n
       /\ codec.pc = "read" => codec.back = [err |-> OK, ret |-> codec.obj]

\* C25: the two bytes SmartFSDirEntryFlags.get_pack returns are a u16
\* little-endian with empty in bit 15, active in bit 14, type in bit 13
\* (0 file, 1 directory), deleting in bit 12, ones in bits 11-9 and the mode
\* in bits 8-0; with the other fields at their defaults empty = 0 packs to
\* FF 7F, active = 0 to FF BF, type = file to FF DF and deleting = 0 to FF EF;
\* create_from_raw reads every field back from the same bits.
C25_DefaultFlags ==
    [empty |-> 1, active |-> 1, type |-> SmartFSDirEntryType_dir, deleting |-> 1,
     mode |-> 511]
C25_FlagsWord == codec.raw[1] + 256 * codec.raw[2]
C26_DirSectors ==
    {l \in Mapped \ {0} : CHOf(l).sector_type = SectorType_directory}
C26_ClockBytes ==
    UNION {UNION {{<<smart_struct.smap[l], 10 + k * EntrySize + 4 + j>> : j \in 1..4}
                    \cup (IF smartfs_config.crc = "crc8"
                          THEN {<<smart_struct.smap[l], 4>>} ELSE {}) :
                  k \in {s \in 0..(SlotsPerSector - 1) : Occupied(l, s)}} :
           l \in C26_DirSectors}
C26_Differing ==
    UNION {{<<phy, i>> : i \in {j \in 1..Len(storage[phy]) :
                                    storage[phy][j] # twin.storage[phy][j]}} :
           phy \in {q \in DOMAIN storage : storage[q] # twin.storage[q]}}
C27_Upper == {l \in Mapped : l >= SCTN_FIRST_ALLOC_SECTOR}
C27_SmallestFreeLogical ==
    [][(/\ last'.op = "_allocsector"
        /\ nops' # nops
        /\ last'.requested = LS_HIGHT_NUMBER
        /\ last'.err # "ValueError: Not enough free sectors")
       => IF \A x \in SCTN_FIRST_ALLOC_SECTOR..(smart_struct.totalsectors - 1) : x \in Mapped
          THEN /\ last'.err = "ValueError: No available logical sector"
               /\ storage' = storage
               /\ blank' = blank
               /\ smart_struct' = smart_struct
          ELSE /\ last'.err = OK
               /\ last'.ret \in SCTN_FIRST_ALLOC_SECTOR..(smart_struct.totalsectors - 1)
               /\ last'.ret \notin Mapped
               /\ \A x \in SCTN_FIRST_ALLOC_SECTOR..(last'.ret - 1) : x \in Mapped
               /\ Mapped' = Mapped \cup {last'.ret}
               /\ (C27_Upper = SCTN_FIRST_ALLOC_SECTOR..(SCTN_FIRST_ALLOC_SECTOR
                                                            + Cardinality(C27_Upper) - 1))
                    => last'.ret = SCTN_FIRST_ALLOC_SECTOR + Cardinality(C27_Upper)]_vars
\* the third call without a number, after a call that asked for 11, returned 14
C27_Witness ==
    /\ last.op = "_allocsector"
    /\ last.requested = LS_HIGHT_NUMBER
    /\ last.err = OK
    /\ last.ret = 14
    /\ 11 \in Mapped
    /\ C27_Upper = {12, 13, 14}
\* every number from 12 on is mapped and the call fails for that
C27_WitnessNoLogical ==
    /\ last.op = "_allocsector"
    /\ last.requested = LS_HIGHT_NUMBER
    /\ last.err = "ValueError: No available logical sector"

\* C28: when a call of _allocsector that chooses the physical sector itself
\* succeeds, the sector chosen, physical = block * sectors_per_eb + i, was
\* marked free in free_sector_map before the call, every sector of its erase
\* block with a lower index was marked used, it is the one sector marked used
\* by the call, and lastallocblock is its block afterwards.
C28_Chosen == smart_struct.smap[last.ret]
C28_LowestFreeOfBlock ==
    [][(/\ last'.op = "_allocsector"
        /\ nops' # nops
        /\ last'.err = OK)
       => /\ <<C28_Chosen' \div smart_struct.sectorsperblk,
               C28_Chosen' % smart_struct.sectorsperblk>> \notin smart_struct.free_sector_map
          /\ \A j \in 0..((C28_Chosen' % smart_struct.sectorsperblk) - 1) :
                <<C28_Chosen' \div smart_struct.sectorsperblk, j>>
                    \in smart_struct.free_sector_map
          /\ smart_struct'.free_sector_map
                = smart_struct.free_sector_map
                    \cup {<<C28_Chosen' \div smart_struct.sectorsperblk,
                            C28_Chosen' % smart_struct.sectorsperblk>>}
          /\ smart_struct'.lastallocblock = C28_Chosen' \div smart_struct.sectorsperblk]_vars
\* the sector taken was the second of the last erase block
C28_Witness ==
    /\ last.op = "_allocsector"
    /\ last.err = OK
    /\ smart_struct.sectorsperblk = 4
    /\ C28_Chosen = 13
    /\ smart_struct.lastallocblock = 3
    /\ {<<3, 0>>, <<3, 1>>} \subseteq smart_struct.free_sector_map
    /\ <<3, 2>> \notin smart_struct.free_sector_map

\* C29: _findfreephyssector called when some erase block has a free sector
\* takes the sector from the candidate c = (lastallocblock + 1) mod
\* n_erase_blocks if c is entirely free; otherwise from the lowest entirely
\* free block if there is one; otherwise from a block with the most free
\* sectors, and from c itself when no block has more free sectors than c; the
\* block it takes from has the most free sectors in every case.
C29_Blocks == 0..(smart_struct.neraseblocks - 1)
C29_Free(b) ==
    Cardinality({i \in 0..(smart_struct.sectorsperblk - 1) :
                    <<b, i>> \notin smart_struct.free_sector_map})
C29_Candidate == (smart_struct.lastallocblock + 1) % smart_struct.neraseblocks
C29_AllFree == {b \in C29_Blocks : C29_Free(b) = smart_struct.sectorsperblk}
C29_BlockChoice ==
    [][(last'.op = "_findfreephyssector" /\ \E b \in C29_Blocks : C29_Free(b) > 0)
       => Let(last'.ret \div smart_struct.sectorsperblk, LAMBDA chosen :
            /\ last'.err = OK
            /\ chosen \in C29_Blocks
            /\ C29_Candidate \in C29_AllFree => chosen = C29_Candidate
            /\ (C29_Candidate \notin C29_AllFree /\ C29_AllFree # {})
                => (chosen \in C29_AllFree /\ \A b \in C29_AllFree : chosen <= b)
            /\ (\A b \in C29_Blocks : C29_Free(b) <= C29_Free(C29_Candidate))
                => chosen = C29_Candidate
            /\ \A b \in C29_Blocks : C29_Free(b) <= C29_Free(chosen))]_vars
\* the candidate, block 1, had one free sector, block 0 two, blocks 2 and 3
\* were entirely free: the sector came from block 2
C29_Witness ==
    /\ last.op = "_findfreephyssector"
    /\ last.err = OK
    /\ last.before = 0
    /\ last.ret = 8
    /\ smart_struct.lastallocblock = 2
    /\ smart_struct.free_sector_map
        = {<<0, 0>>, <<0, 1>>, <<1, 0>>, <<1, 1>>, <<1, 2>>, <<2, 0>>}

\* The slot of the root's chain after its occupied ones: where the next entry
\* goes
C30_NextSlot ==
    <<RootChain[(Len(RootEntries) \div SlotsPerSector) + 1], Len(RootEntries) % SlotsPerSector>>
C30_NewEH ==
    CHOOSE eh \in {SmartFSEntryHeader_create_from_raw(b).ret :
                     b \in {SlotBytes(es[Len(es)][1], es[Len(es)][2]) : es \in {RootEntries}}} : TRUE
C30_NewWord ==
    CHOOSE w \in {b[1] + 256 * b[2] :
                    b \in {SlotBytes(es[Len(es)][1], es[Len(es)][2]) : es \in {RootEntries}}} : TRUE
\* C30: a cmd_mkdir or cmd_file_create_write that adds an entry to the root
\* directory writes its EH into the first empty slot of the root's chain, with
\* the name given, first_sector a logical sector that was not mapped before
\* and is mapped now, empty = 0, active = 1, deleting = 1, bits 11-9 set, the
\* type and the mode passed; the CH of that sector has the type of the entry
\* (directory or file) and, for a directory and for a file without body,
\* next = 0xFFFF and used = 0xFFFF; and in every state the type of every entry
\* of the root agrees with the CH type of its first sector.
C30_EntryAsRequested ==
    /\ [](phase = "ready" =>
            \A i \in 1..Len(RootEntries) :
                Let(EHAt(RootEntries[i][1], RootEntries[i][2]), LAMBDA eh :
                    /\ eh.first_sector \in Mapped
                    /\ CHOf(eh.first_sector).sector_type
                        = (IF eh.flags.type = SmartFSDirEntryType_dir
                           THEN SectorType_directory ELSE SectorType_file)))
    /\ [][(/\ Idle
           /\ last'.op \in {"cmd_mkdir", "cmd_file_create_write"}
           /\ Len(RootEntries') # Len(RootEntries))
          => (/\ RootEntries' = Append(RootEntries, C30_NextSlot)
              /\ (C30_NewWord' \div 512) % 8 = 7
              /\ \A eh \in {C30_NewEH'} :
                    /\ eh.name = NameOf(last'.path)
                    /\ eh.first_sector \notin Mapped
                    /\ eh.first_sector \in Mapped'
                    /\ eh.first_sector >= SCTN_FIRST_ALLOC_SECTOR
                    /\ eh.flags.empty = 0
                    /\ eh.flags.active = 1
                    /\ eh.flags.deleting = 1
                    /\ eh.flags.type = (IF last'.op = "cmd_mkdir"
                                        THEN SmartFSDirEntryType_dir
                                        ELSE SmartFSDirEntryType_file)
                    /\ eh.flags.mode = (IF last'.op = "cmd_mkdir" THEN DirMode ELSE FileMode)
                    /\ (last'.op = "cmd_mkdir" \/ last'.body = <<>>)
                          => CHOf(eh.first_sector)'
                              = [sector_type |-> IF last'.op = "cmd_mkdir"
                                                 THEN SectorType_directory ELSE SectorType_file,
                                 next_sector |-> 65535, used |-> 65535])]_vars
\* the root holds a directory and, in its second slot, a file without body
C30_Witness ==
    /\ phase = "ready"
    /\ last.op = "cmd_file_create_write" /\ last.err = OK /\ last.body = <<>>
    /\ Len(RootEntries) = 2
    /\ RootEntries[2] = <<SCTN_ROOT_DIR_SECTOR, 1>>
    /\ EHAt(SCTN_ROOT_DIR_SECTOR, 0).flags.type = SmartFSDirEntryType_dir
    /\ C30_NewEH.flags.type = SmartFSDirEntryType_file
    /\ CHOf(C30_NewEH.first_sector).sector_type = SectorType_file
    /\ CHOf(C30_NewEH.first_sector).used = 65535

(* ------------------------------------------------------------------ *)
(* C31: no releases and no overwrites                                  *)
(* ------------------------------------------------------------------ *)
\* The SH stored in the mapped logical sector l
SHOf(l) == SectorHeader_create_from_raw(SubSeq(Image(smart_struct.smap[l]), 1, 5)).ret

\* C31: in every step of the constructor and of _allocsector, a logical sector
\* that is mapped keeps its physical sector, free_sectors does not grow and
\* the physical sector of a mapped logical sector keeps its bytes (it is not
\* created again for another logical sector); and in every state each mapped
\* sector has committed = 0, released = 1 and sequence number 0.
C31_NoReleaseNoOverwrite ==
    /\ [](\A l \in Mapped :
            /\ SHOf(l).status.committed = Commited_committed
            /\ SHOf(l).status.released = Released_not_released
            /\ SHOf(l).sequence_number = 0)
    /\ [][/\ smart_struct'.freesectors <= smart_struct.freesectors
          /\ \A l \in Mapped :
                /\ l \in Mapped'
                /\ smart_struct'.smap[l] = smart_struct.smap[l]
                /\ SectorBytes(Layer', smartfs_config, smart_struct.smap[l])
                    = Image(smart_struct.smap[l])]_vars

(* ------------------------------------------------------------------ *)
(* C32: the sector-count limits of _initialize                         *)
(* ------------------------------------------------------------------ *)
\* The number of sectors the geometry yields
C32_Sectors ==
    (smartfs_config.device_size \div smartfs_config.erase_block_size)
        * (smartfs_config.erase_block_size \div _sector_size_byte(smartfs_config))

\* C32: a geometry of more than 65536 sectors is rejected by the constructor;
\* one of exactly 65536 sectors is accepted, with total_sectors = 65534,
\* free_sectors = 65534 when _initialize returns, smap covering exactly the
\* logical numbers below total_sectors, and no _allocsector returning 65534
\* or 65535.
C32_SectorCountLimits ==
    /\ (C32_Sectors > 65536 /\ phase # "new") => (phase = "failed" /\ last.err # OK)
    /\ C32_Sectors = 65536 =>
        /\ phase # "failed"
        /\ smart_struct.totalsectors = 65534
        /\ phase = "new" => smart_struct.freesectors = smart_struct.totalsectors
        /\ smart_struct.smap_keys = smart_struct.totalsectors
        /\ (last.op = "_allocsector" /\ last.err = OK) => last.ret \notin {65534, 65535}

(* ------------------------------------------------------------------ *)
(* C33: the geometry divides evenly                                    *)
(* ------------------------------------------------------------------ *)
\* erase_block_size divides the image size, the sector size divides
\* erase_block_size, and an erase block holds at least one sector
C33_DividesEvenly ==
    /\ smartfs_config.device_size % smartfs_config.erase_block_size = 0
    /\ smartfs_config.erase_block_size % _sector_size_byte(smartfs_config) = 0
    /\ smartfs_config.erase_block_size \div _sector_size_byte(smartfs_config) >= 1

\* C33: a layer whose construction has returned has a geometry that divides
\* evenly; the construction of any other geometry ends with an error.
C33_GeometryChecked ==
    /\ phase = "ready" => C33_DividesEvenly
    /\ (~C33_DividesEvenly /\ phase \notin {"new", "formatting"})
            => (phase = "failed" /\ last.err # OK)

(* ------------------------------------------------------------------ *)
(* C34: smap is injective on the mapped sectors                        *)
(* ------------------------------------------------------------------ *)
\* C34: once the constructor has returned, and after every call, no two
\* logical sectors are mapped to the same physical sector.
C34_SmapInjective ==
    phase = "ready" =>
        \A l1 \in Mapped : \A l2 \in Mapped :
            l1 # l2 => smart_struct.smap[l1] # smart_struct.smap[l2]

(* ------------------------------------------------------------------ *)
(* C35: free_sectors, free_sector_map and smap agree                   *)
(* ------------------------------------------------------------------ *)
\* The positions <<erase block, index>> of the physical sectors that some
\* logical sector maps to
C35_MappedPositions ==
    {<<smart_struct.smap[l] \div smart_struct.sectorsperblk,
       smart_struct.smap[l] % smart_struct.sectorsperblk>> : l \in Mapped}

\* C35: once the constructor has returned, and after every call, free_sectors
\* is the number of sectors free_sector_map marks free, and free_sector_map
\* marks used exactly the physical sectors some logical sector maps to.
C35_BookkeepingAgrees ==
    phase = "ready" =>
        /\ smart_struct.freesectors
            = smart_struct.neraseblocks * smart_struct.sectorsperblk
                - Cardinality(smart_struct.free_sector_map)
        /\ smart_struct.free_sector_map = C35_MappedPositions

(* ------------------------------------------------------------------ *)
(* C36: the SH of a mapped sector names it                             *)
(* ------------------------------------------------------------------ *)
\* C36: once the constructor has returned, and after every call, the SH
\* stored at physical sector smap[l] carries the logical sector number l, for
\* every mapped l.
C36_HeaderNamesSector ==
    phase = "ready" => \A l \in Mapped : SHOf(l).logical_sector_number = l

(* ------------------------------------------------------------------ *)
(* C37: unmapped physical sectors are blank                            *)
(* ------------------------------------------------------------------ *)
\* The physical sectors some logical sector maps to
C37_MappedPhysical == {smart_struct.smap[l] : l \in Mapped}

\* The physical sectors of the device
C37_PhysicalCount == smart_struct.neraseblocks * smart_struct.sectorsperblk

\* C37: once the constructor has returned, and after every call, ended well or
\* with an error, every physical sector no logical sector maps to holds
\* 0xFF in all its bytes: the sectors written so far and the sectors never
\* written, which hold the fill value.
C37_UnmappedAllFF ==
    phase = "ready" =>
        /\ \A p \in (DOMAIN storage) \ C37_MappedPhysical :
                \A i \in 1..Len(storage[p]) : storage[p][i] = 255
        /\ Cardinality(DOMAIN storage) < C37_PhysicalCount => blank = 255

\* a cmd_file_create_write ran out of sectors after it had allocated some
C37_Witness ==
    /\ phase = "ready"
    /\ last.op = "cmd_file_create_write"
    /\ last.err = "ValueError: Not enough free sectors"
    /\ Len(RootEntries) = 1
    /\ Len(ChainOf(C30_NewEH.first_sector)) >= 2
    /\ Cardinality(DOMAIN storage) < C37_PhysicalCount
    /\ DOMAIN storage = C37_MappedPhysical

(* ------------------------------------------------------------------ *)
(* C38: the chains are well formed                                     *)
(* ------------------------------------------------------------------ *)
\* The first sectors of the entries of the directory whose chain starts at l,
\* each with the slot of its entry
C38_EntriesOf(l) ==
    {<<e, EHAt(e[1], e[2]).first_sector, EHAt(e[1], e[2]).flags.type>> :
        e \in {DirEntries(l)[i] : i \in 1..Len(DirEntries(l))}}

\* The entries of the root directory and of the directories in it
C38_Entries ==
    C38_EntriesOf(SCTN_ROOT_DIR_SECTOR)
        \cup UNION {C38_EntriesOf(d[2]) :
                        d \in {e \in C38_EntriesOf(SCTN_ROOT_DIR_SECTOR) :
                                    e[3] = SmartFSDirEntryType_dir /\ e[2] \in Mapped}}

\* The chains of the image, each with what it belongs to: the root directory
\* (its slot is <<>>) and every entry
C38_Chains ==
    {<<x[1], ChainOf(x[2])>> :
        x \in {<<<<>>, SCTN_ROOT_DIR_SECTOR>>} \cup {<<e[1], e[2]>> : e \in C38_Entries}}

\* C38: after every call, the walk along CH.next from the root sector and
\* from the first sector of every entry goes through mapped sectors only,
\* comes to no sector twice and ends at a sector whose next is 0xFFFF; the
\* chains of two entries (and of the root) share no sector, and the sectors
\* of one chain have the same CH type.
C38_ChainsWellFormed ==
    phase = "ready" =>
        /\ \A x \in C38_Chains :
            \A c \in {x[2]} :
                /\ Len(c) >= 1
                /\ CHOf(c[Len(c)]).next_sector = 65535
                /\ \A i \in 1..Len(c) : CHOf(c[i]).sector_type = CHOf(c[1]).sector_type
        /\ \A x \in C38_Chains : \A y \in C38_Chains :
                x[1] # y[1] =>
                    \A i \in 1..Len(x[2]) : \A j \in 1..Len(y[2]) : x[2][i] # y[2][j]

\* the root holds a directory and a file whose chain has three sectors
C38_Witness ==
    /\ phase = "ready"
    /\ last.op = "cmd_file_create_write" /\ last.err = OK
    /\ Len(RootEntries) = 2
    /\ EHAt(SCTN_ROOT_DIR_SECTOR, 0).flags.type = SmartFSDirEntryType_dir
    /\ Len(ChainOf(EHAt(SCTN_ROOT_DIR_SECTOR, 1).first_sector)) = 3
    /\ Cardinality(C38_Chains) = 3

(* ------------------------------------------------------------------ *)
(* C39: no entry with an empty name                                    *)
(* ------------------------------------------------------------------ *)
\* C39: a cmd_mkdir or cmd_file_create_write whose path ends in '/' (its last
\* component is empty) ends with an error and leaves the image and the
\* bookkeeping as they were; and every entry of the root directory has a
\* name of one character or more.
C39_NoEmptyName ==
    /\ [](phase = "ready" =>
            \A i \in 1..Len(RootEntries) :
                EHAt(RootEntries[i][1], RootEntries[i][2]).name # <<>>)
    /\ [][(/\ Idle
           /\ last'.op \in {"cmd_mkdir", "cmd_file_create_write"}
           /\ NameOf(last'.path) = <<>>)
          => (/\ last'.err # OK
              /\ storage' = storage
              /\ smart_struct' = smart_struct)]_vars

(* ------------------------------------------------------------------ *)
(* C40: first_sector holds every logical sector number                 *)
(* ------------------------------------------------------------------ *)
\* The logical sector numbers _allocsector can return on some image
C40_Allocatable == SCTN_FIRST_ALLOC_SECTOR..65533

\* C40: for an EH whose first_sector is a logical sector number the allocator
\* can return, get_pack does not raise, bytes 2-3 of what it returns are the
\* number as a u16 little-endian, and create_from_raw reads the same number
\* back.
C40_FirstSectorStored ==
    (/\ codec.cls = "SmartFSEntryHeader"
     /\ codec.obj # NoObject
     /\ codec.pc # "object"
     /\ Len(codec.obj.name) <= codec.n
     /\ codec.obj.first_sector \in C40_Allocatable)
    => /\ codec.pc # "raised"
       /\ SubSeq(codec.raw, 3, 4) = U16LE(codec.obj.first_sector)
       /\ codec.pc = "read" => codec.back.ret.first_sector = codec.obj.first_sector

====
